---- MODULE Spec2Model ----
(***************************************************************************)
(* A model of nvm.pmemobj (pynvm): the persistent object pool, its         *)
(* transaction stack, object cache, codecs, reference counting and the     *)
(* persistent list, layered over the transactional allocator libpmemobj.   *)
(*                                                                         *)
(* Every operation of the Python code is a pure operator on a machine      *)
(* record m (the persistent bytes, the library's transaction state and     *)
(* the fields of the Python objects).  A Python exception in flight is the *)
(* field m.exc; a statement that follows another one is skipped while an   *)
(* exception is in flight, and `with mm.transaction():` is                 *)
(* exit(body(enter(m))), as the with-statement runs it.                    *)
(***************************************************************************)
EXTENDS Integers, Sequences, FiniteSets, TLC

\* ------------------------------------------------------------------ bounds
\* Number of allocation slots of the pool (its capacity): tx_zalloc fails
\* with ENOMEM when they are all in use.
MaxOid == 14
\* Deepest nesting of user-written `with pop.transaction():` blocks.
MaxScopes == 3
\* Most explicit begin() calls left open at one time.
MaxFree == 1
\* Deepest nesting of library transactions at which the program still opens
\* another one with begin() or a `with` block.
MaxTx == 5
\* Most begin(), commit(), abort() and raise statements the program runs
\* inside one outermost transaction.
MaxOps == 2
\* Most outermost transactions (a bare root assignment is one) of one run.
MaxEpisodes == 2
\* List statements of a run, and the largest index (and -index) they use.
MaxListOps == 2
MaxIndex == 3
\* Statements on lists (append, clear) of a run that builds cycles of lists.
MaxGcOps == 5
\* Nesting of the scoped transactions in which lists are made.
MaxListScopes == 2
\* List statements inside one outermost scoped transaction.
MaxScopedOps == 2
\* Threads that use one pool handle.
NumThreads == 2

\* --------------------------------------------------------------- constants
ECANCELED == 125
INTERNAL_ABORT_ERRNO == 99999
EINVAL == 22
ENOMEM == 12
ENOENT == 2
EEXIST == 17
\* lib.OID_NULL.pool_uuid_lo / the uuid half of every other OID of the pool.
PoolUuid == 1

\* An OID in tuple form (otuple): <<pool_uuid_lo, off>>.
OID_NULL == <<0, 0>>
Oid(off) == <<PoolUuid, off>>
Offs == 1..MaxOid

\* ------------------------------------------------------------ host values
\* Python values the model lets a program hand to the pool.  All are records
\* of one shape: t is the class, i the int, s the code points of a str, o the
\* OID a PersistentList object is bound to (its _oid).
V_None == [t |-> "none", i |-> 0, s |-> <<>>, o |-> OID_NULL]
V_Int(i) == [t |-> "int", i |-> i, s |-> <<>>, o |-> OID_NULL]
V_Str(s) == [t |-> "str", i |-> 0, s |-> s, o |-> OID_NULL]
V_List(oid) == [t |-> "plist", i |-> 0, s |-> <<>>, o |-> oid]
\* An instance of a class without codec (tests: TestFoo).
V_Foo == [t |-> "foo", i |-> 0, s |-> <<>>, o |-> OID_NULL]

\* Class strings "module:qualname" (_class_string), abbreviated to a few code
\* points each; they are ordinary str values stored in the type table.
CLS_LIST == <<80, 76>>
CLS_STR == <<115>>
CLS_INT == <<105>>
CLS_FOO == <<70>>
class_string(v) ==
    CASE v.t = "plist" -> CLS_LIST
      [] v.t = "str" -> CLS_STR
      [] v.t = "int" -> CLS_INT
      [] OTHER -> CLS_FOO

\* ------------------------------------------------------------------ codecs
RECURSIVE Digits(_)
\* The decimal digits of n >= 0 as character codes ('0' is 48).
Digits(n) == IF n < 10 THEN <<48 + n>> ELSE Digits(n \div 10) \o <<48 + (n % 10)>>
\* repr(i) of an int: the code points of its decimal form ('-' is 45).
repr_int(i) == IF i < 0 THEN <<45>> \o Digits(0 - i) ELSE Digits(i)

RECURSIVE ParseDigits(_, _)
ParseDigits(s, acc) ==
    IF s = <<>> THEN acc ELSE ParseDigits(Tail(s), 10 * acc + (Head(s) - 48))
IsDigits(s) == s # <<>> /\ \A k \in 1..Len(s) : s[k] \in 48..57
\* int(i_str) accepts an optional sign and decimal digits.
int_ok(s) == IF s # <<>> /\ Head(s) = 45 THEN IsDigits(Tail(s)) ELSE IsDigits(s)
int_parse(s) == IF Head(s) = 45 THEN 0 - ParseDigits(Tail(s), 0) ELSE ParseDigits(s, 0)

\* s.encode('utf-8') of one code point (below U+0800).
utf8_char(cp) == IF cp < 128 THEN <<cp>> ELSE <<192 + (cp \div 64), 128 + (cp % 64)>>
RECURSIVE utf8_encode(_)
utf8_encode(s) == IF s = <<>> THEN <<>> ELSE utf8_char(Head(s)) \o utf8_encode(Tail(s))
RECURSIVE utf8_decode(_)
\* bytes.decode('utf-8') of a well-formed sequence of one- and two-byte forms.
utf8_decode(b) ==
    IF b = <<>> THEN <<>>
    ELSE IF Head(b) < 128 THEN <<Head(b)>> \o utf8_decode(Tail(b))
    ELSE IF Len(b) >= 2
         THEN <<(Head(b) - 192) * 64 + (b[2] - 128)>> \o utf8_decode(Tail(Tail(b)))
         ELSE <<65533>>
RECURSIVE ffi_string(_)
\* ffi.string(char *): the bytes before the first NUL.
ffi_string(b) ==
    IF b = <<>> \/ Head(b) = 0 THEN <<>> ELSE <<Head(b)>> \o ffi_string(Tail(b))

\* --------------------------------------------------------- persistent bytes
\* One allocation.  kind "obj" is POBJECT_TYPE_NUM (refcounted: ob_refcnt,
\* ob_type, and for a list ob_size, ob_items, allocated; for a str or int the
\* bytes after the header), kind "arr" is LIST_POBJPTR_ARRAY_TYPE_NUM (slots).
FreeBlock ==
    [kind |-> "free", refcnt |-> 0, type |-> 0, size |-> 0, items |-> OID_NULL,
     allocated |-> 0, body |-> <<>>, slots |-> <<>>]
\* A freed block.  Every later access to it is undefined (see direct), so
\* the model keeps none of its bytes.
Freed(b) == FreeBlock
\* tx_zalloc: zero-filled memory of the given kind.
ZeroObj == [FreeBlock EXCEPT !.kind = "obj"]
ZeroArr(n) == [FreeBlock EXCEPT !.kind = "arr", !.slots = [k \in 1..n |-> OID_NULL]]

\* ------------------------------------------------------------ the machine
\* The fields of the machine record m:
\*   heap, proot              the mapped file: allocations and the PRoot record
\*   stage, txd, undo,        libpmemobj's thread-local transaction state: the
\*   txAllocs, txFrees,         stage, one errnum per open level (innermost last),
\*   errno                      the undo log, and the C errno
\*   trans_stack              _Transaction._trans_stack
\*   cr, cp, tr, tp           _ObjCache._resurrect, _persist, _trans_resurrect,
\*                              _trans_persist
\*   type_table, track_free   MemoryManager._type_table, ._track_free
\*   exc, ret, oid, val       the exception in flight; the last returned int,
\*                              OID and host value
\*   alive                    the process runs
\*   libDebug, asserted       the library is built with its assertions compiled
\*                              in; the running call reached an assertion that
\*                              does not hold, so that the build matters
\*   exists, capacity         the pool file exists; the allocations it has room for
\*   handle                   "none", "open", "closed" or "failed": the
\*                              PersistentObjectPool the program holds
\*   libOpen                  libpmemobj holds the pool open
\*   g, ev                    the working sets and result of the last gc(); the
\*                              gc passes ("gc") and library closes
\*                              ("pmemobj_close") of the running call, in order
NoExc == "none"
Raised(m) == m.exc # NoExc
Raise(m, e) == [m EXCEPT !.exc = e]
Ret(m, r) == [m EXCEPT !.ret = r]
RetOid(m, o) == [m EXCEPT !.oid = o]
RetVal(m, v) == [m EXCEPT !.val = v]
EmptyMap == [x \in {} |-> 0]
Put(f, k, v) == [x \in (DOMAIN f) \cup {k} |-> IF x = k THEN v ELSE f[x]]
Del(f, k) == [x \in (DOMAIN f) \ {k} |-> f[x]]
\* dict.update
Update(f, g) == [x \in (DOMAIN f) \cup (DOMAIN g) |-> IF x \in DOMAIN g THEN g[x] ELSE f[x]]
NoTrack == [on |-> FALSE, oids |-> {}]

\* A failed assertion or FATAL() of the library: the process is aborted.
LibFatal(m) == [m EXCEPT !.alive = FALSE, !.exc = "SIGABRT"]
\* ASSERT_TX_STAGE_WORK and its like: checked by a debug build of the library
\* only.
LibAssert(m, holds) ==
    IF holds \/ ~m.alive THEN m
    ELSE IF m.libDebug THEN LibFatal([m EXCEPT !.asserted = TRUE])
    ELSE [m EXCEPT !.asserted = TRUE]
\* Undefined behaviour: a block freed twice, memory used after it was freed
\* or read as another type than it holds.  Any outcome is possible; the model
\* follows the process no further.
LibUndefined(m) == [m EXCEPT !.alive = FALSE, !.exc = "UNDEFINED"]

\* _raise_per_errno: EINVAL is ValueError, ENOMEM is MemoryError, every other
\* errno (0 included) is OSError.
raise_per_errno(m) ==
    Raise(m, CASE m.errno = EINVAL -> "ValueError"
               [] m.errno = ENOMEM -> "MemoryError"
               [] OTHER -> "OSError")
\* _check_errno(m.ret)
check_errno(m) == IF m.ret # 0 THEN raise_per_errno(m) ELSE m
\* _check_null(m.ret)
check_null(m) == IF m.oid = OID_NULL THEN raise_per_errno(m) ELSE m

\* ----------------------------------------------- libpmemobj: transactions
\* A location of the undo log: <<off, field, index>>; off 0 is the PRoot
\* record.  A list slot (a 16-byte PMEMoid) is two locations, its
\* pool_uuid_lo half ("slot_lo") and its off half ("slot_off").
RootLoc(field) == <<0, field, 0>>
FieldLoc(oid, field) == <<oid[2], field, 0>>
SlotLocs(oid, k) == {<<oid[2], "slot_lo", k>>, <<oid[2], "slot_off", k>>}
ReadLoc(m, loc) ==
    IF loc[1] = 0 THEN m.proot[loc[2]]
    ELSE LET b == m.heap[loc[1]] IN
         CASE loc[2] = "refcnt" -> b.refcnt
           [] loc[2] = "type" -> b.type
           [] loc[2] = "size" -> b.size
           [] loc[2] = "items" -> b.items
           [] loc[2] = "allocated" -> b.allocated
           [] loc[2] = "slot_lo" -> b.slots[loc[3]][1]
           [] loc[2] = "slot_off" -> b.slots[loc[3]][2]
LocExists(m, loc) ==
    \/ loc[1] = 0
    \/ /\ loc[1] \in Offs
       /\ m.heap[loc[1]].kind # "free"
       /\ loc[2] \in {"slot_lo", "slot_off"} => loc[3] \in 1..Len(m.heap[loc[1]].slots)

\* pmemobj_tx_add_range_direct: copy the bytes into the undo log, unless they
\* are logged already or belong to an allocation made by this transaction.
\* Outside TX_STAGE_WORK it fails (the caller ignores its return value).
tx_add_range(m, locs) ==
    IF m.stage # "WORK" THEN m
    ELSE LET new == {l \in locs : /\ LocExists(m, l)
                                  /\ l \notin DOMAIN m.undo
                                  /\ l[1] \notin m.txAllocs}
         IN [m EXCEPT !.undo = [l \in (DOMAIN m.undo) \cup new |->
                                   IF l \in DOMAIN m.undo THEN m.undo[l] ELSE ReadLoc(m, l)]]

Restored(m, loc, cur) == IF loc \in DOMAIN m.undo THEN m.undo[loc] ELSE cur
RestoreBlock(m, off) ==
    LET b == m.heap[off] IN
    [b EXCEPT !.refcnt = Restored(m, <<off, "refcnt", 0>>, @),
              !.type = Restored(m, <<off, "type", 0>>, @),
              !.size = Restored(m, <<off, "size", 0>>, @),
              !.items = Restored(m, <<off, "items", 0>>, @),
              !.allocated = Restored(m, <<off, "allocated", 0>>, @),
              !.slots = [k \in 1..Len(b.slots) |->
                            <<Restored(m, <<off, "slot_lo", k>>, b.slots[k][1]),
                              Restored(m, <<off, "slot_off", k>>, b.slots[k][2])>>]]
\* Abort of the outermost level: the undo log is applied, the allocations of
\* the transaction are freed and its frees are forgotten.
tx_rollback(m) ==
    [m EXCEPT !.heap = [off \in Offs |-> IF off \in m.txAllocs THEN Freed(m.heap[off])
                                         ELSE RestoreBlock(m, off)],
              !.proot = [type_table |-> Restored(m, RootLoc("type_table"), m.proot.type_table),
                         root_object |-> Restored(m, RootLoc("root_object"), m.proot.root_object)],
              !.undo = EmptyMap, !.txAllocs = {}, !.txFrees = {}]
\* Commit of the outermost level: the frees take effect, the log is dropped.
tx_apply(m) ==
    [m EXCEPT !.heap = [off \in Offs |-> IF off \in m.txFrees THEN Freed(m.heap[off])
                                         ELSE m.heap[off]],
              !.undo = EmptyMap, !.txAllocs = {}, !.txFrees = {}]

\* pmemobj_tx_begin(pop, NULL, NULL): a new outermost level from
\* TX_STAGE_NONE, a nested level from TX_STAGE_WORK, EINVAL in any other stage.
tx_begin(m) ==
    CASE m.stage = "NONE" -> [m EXCEPT !.stage = "WORK", !.txd = <<0>>, !.ret = 0]
      [] m.stage = "WORK" -> [m EXCEPT !.txd = Append(@, 0), !.ret = 0]
      [] OTHER -> [m EXCEPT !.stage = "ONABORT", !.errno = EINVAL, !.ret = EINVAL]

\* pmemobj_tx_abort(errnum): TX_STAGE_WORK -> TX_STAGE_ONABORT; the level
\* remembers errnum; the outermost level rolls back at once.
tx_abort(m, errnum) ==
    LET n == LibAssert(m, m.stage = "WORK") IN
    IF ~n.alive THEN n
    ELSE IF n.txd = <<>> THEN LibFatal(n)
    ELSE LET a == [n EXCEPT !.stage = "ONABORT", !.errno = errnum,
                            !.txd[Len(n.txd)] = errnum]
         IN IF Len(n.txd) = 1 THEN tx_rollback(a) ELSE a

\* pmemobj_tx_commit(): TX_STAGE_WORK -> TX_STAGE_ONCOMMIT; the outermost
\* level makes the transaction durable.
tx_commit(m) ==
    LET n == LibAssert(m, m.stage = "WORK") IN
    IF ~n.alive THEN n
    ELSE IF n.txd = <<>> THEN LibFatal(n)
    ELSE LET c == [n EXCEPT !.stage = "ONCOMMIT"]
         IN IF Len(n.txd) = 1 THEN tx_apply(c) ELSE c

RECURSIVE call(_, _, _)
\* pmemobj_tx_end(): close the innermost level and return its errnum; the
\* enclosing level resumes in TX_STAGE_WORK, and is aborted with the same
\* errnum when the closed level was aborted.  Calling it in TX_STAGE_WORK is
\* outside the library's contract: an assertion failure in a debug build,
\* the level silently dropped otherwise.
tx_end(m) ==
    IF m.txd = <<>> THEN LibFatal(m)
    ELSE LET n == LibAssert(m, m.stage # "WORK")
             errnum == n.txd[Len(n.txd)]
             rest == SubSeq(n.txd, 1, Len(n.txd) - 1)
         IN IF ~n.alive THEN n
            ELSE IF rest = <<>>
            THEN [n EXCEPT !.txd = rest, !.stage = "NONE", !.ret = errnum,
                           !.undo = EmptyMap, !.txAllocs = {}, !.txFrees = {}]
            ELSE LET r == [n EXCEPT !.txd = rest, !.stage = "WORK", !.ret = errnum]
                 IN IF errnum # 0 THEN Ret(call("tx_abort", r, <<errnum>>), errnum) ELSE r

\* pmemobj_tx_stage()
tx_stage(m) == m.stage

\* ------------------------------------------------- libpmemobj: allocation
FreeOffs(m) == {off \in 1..m.capacity : m.heap[off].kind = "free"}
LowestFree(m) == CHOOSE off \in FreeOffs(m) : \A o2 \in FreeOffs(m) : off <= o2
\* pmemobj_tx_zalloc: a zeroed block; when the pool is full the transaction
\* is aborted with ENOMEM and OID_NULL is returned.
tx_zalloc(m, block) ==
    IF m.stage # "WORK" THEN [m EXCEPT !.errno = EINVAL, !.oid = OID_NULL]
    ELSE IF FreeOffs(m) = {} THEN RetOid(call("tx_abort", m, <<ENOMEM>>), OID_NULL)
    ELSE LET off == LowestFree(m)
         IN [m EXCEPT !.heap[off] = block, !.txAllocs = @ \cup {off}, !.oid = Oid(off)]
\* pmemobj_tx_free: at once for an allocation of this transaction, at commit
\* for an older one; returns 0 or an errno.
tx_free(m, oid) ==
    IF m.stage # "WORK" THEN [m EXCEPT !.errno = EINVAL, !.ret = EINVAL]
    ELSE IF oid = OID_NULL THEN Ret(m, 0)
    ELSE IF m.heap[oid[2]].kind = "free" \/ oid[2] \in m.txFrees THEN LibUndefined(m)
    ELSE IF oid[2] \in m.txAllocs
         THEN [m EXCEPT !.heap[oid[2]] = Freed(@), !.txAllocs = @ \ {oid[2]}, !.ret = 0]
         ELSE [m EXCEPT !.txFrees = @ \cup {oid[2]}, !.ret = 0]
\* pmemobj_direct: NULL (here FALSE) for an OID with a zero half.
direct_ok(oid) == oid[1] # 0 /\ oid[2] # 0

\* --------------------------------------------------------------- _ObjCache
\* pkey: a hashable object is its own key, a PersistentList is keyed by
\* ObjKey(id(obj)).
pkey(obj) == IF obj.t = "plist" THEN [obj EXCEPT !.t = "ObjKey"] ELSE obj
\* _ObjCache.clear
cache_clear(m) ==
    [m EXCEPT !.cr = Put(EmptyMap, OID_NULL, V_None), !.cp = Put(EmptyMap, V_None, OID_NULL),
              !.tr = EmptyMap, !.tp = EmptyMap]
\* A clear_transaction_cache that keeps the staged maps.
clear_transaction_cache_Keeps(m) == m
\* _ObjCache.clear_transaction_cache
clear_transaction_cache(m) == [m EXCEPT !.tr = EmptyMap, !.tp = EmptyMap]
\* obj_from_oid: the staged map first, then the committed one.
has_obj_from_oid(m, oid) == oid \in DOMAIN m.tr \/ oid \in DOMAIN m.cr
obj_from_oid(m, oid) == IF oid \in DOMAIN m.tr THEN m.tr[oid] ELSE m.cr[oid]
has_oid_from_obj(m, obj) == pkey(obj) \in DOMAIN m.tp \/ pkey(obj) \in DOMAIN m.cp
oid_from_obj(m, obj) == IF pkey(obj) \in DOMAIN m.tp THEN m.tp[pkey(obj)] ELSE m.cp[pkey(obj)]
\* _ObjCache.cache(oid, obj, in_transaction)
cache(m, oid, obj, in_transaction) ==
    IF in_transaction
    THEN [m EXCEPT !.tr = Put(@, oid, obj), !.tp = Put(@, pkey(obj), oid)]
    ELSE [m EXCEPT !.cr = Put(@, oid, obj), !.cp = Put(@, pkey(obj), oid)]
commit_transaction_cache(m) ==
    [m EXCEPT !.cr = Update(@, m.tr), !.tr = EmptyMap,
              !.cp = Update(@, m.tp), !.tp = EmptyMap]
\* _ObjCache.purge: del of a missing key raises KeyError.
purge(m, oid) ==
    IF oid \in DOMAIN m.tr
    THEN LET k == pkey(m.tr[oid]) IN
         IF k \in DOMAIN m.tp
         THEN [m EXCEPT !.tr = Del(@, oid), !.tp = Del(@, k)]
         ELSE Raise([m EXCEPT !.tr = Del(@, oid)], "KeyError")
    ELSE IF oid \in DOMAIN m.cr
    THEN LET k == pkey(m.cr[oid]) IN
         IF k \in DOMAIN m.cp
         THEN [m EXCEPT !.cr = Del(@, oid), !.cp = Del(@, k)]
         ELSE Raise([m EXCEPT !.cr = Del(@, oid)], "KeyError")
    ELSE m

\* ------------------------------------------------------------ _Transaction
FREE == "F"
CONTEXT == "C"
Top(stack) == stack[Len(stack)]
Pop(stack) == SubSeq(stack, 1, Len(stack) - 1)
depth(m) == Len(m.trans_stack)

\* _Transaction.begin
begin(m) ==
    LET b == check_errno(call("tx_begin", m, <<>>)) IN
    IF Raised(b) THEN b ELSE [b EXCEPT !.trans_stack = Append(@, FREE)]

\* A commit that does not check that a transaction is open.
commit_Outside(m) ==
    IF m.trans_stack = <<>> THEN check_errno(call("tx_end", call("tx_commit", m, <<>>), <<>>))
    ELSE IF Top(m.trans_stack) # FREE THEN Raise(m, "RuntimeError")
    ELSE LET c == call("tx_commit", [m EXCEPT !.trans_stack = Pop(@)], <<>>) IN
         IF Raised(c) THEN c ELSE check_errno(call("tx_end", c, <<>>))
\* A commit that does not check whose frame is on top of the stack.
commit_InContext(m) ==
    IF m.trans_stack = <<>> THEN Raise(m, "RuntimeError")
    ELSE LET c == call("tx_commit", [m EXCEPT !.trans_stack = Pop(@)], <<>>) IN
         IF Raised(c) THEN c ELSE check_errno(call("tx_end", c, <<>>))
\* _Transaction.commit
commit(m) ==
    IF m.trans_stack = <<>> THEN Raise(m, "RuntimeError")
    ELSE IF Top(m.trans_stack) # FREE THEN Raise(m, "RuntimeError")
    ELSE LET c == call("tx_commit", [m EXCEPT !.trans_stack = Pop(@)], <<>>) IN
         IF Raised(c) THEN c ELSE check_errno(call("tx_end", c, <<>>))

\* An abort that leaves the library's transaction as it is.
abort_Forgets(m, errnum) ==
    IF m.trans_stack = <<>> THEN Raise(m, "RuntimeError")
    ELSE LET c == clear_transaction_cache(m) IN
         IF Top(c.trans_stack) = FREE
         THEN check_errno(call("tx_end", call("tx_commit", [c EXCEPT !.trans_stack = Pop(@)], <<>>), <<>>))
         ELSE c
\* _Transaction.abort
abort(m, errnum) ==
    IF m.trans_stack = <<>> THEN Raise(m, "RuntimeError")
    ELSE LET a == call("tx_abort", m, <<errnum>>) IN
         IF Raised(a) THEN a
         ELSE LET c == clear_transaction_cache(a) IN
              IF Top(c.trans_stack) = FREE
              THEN check_errno(call("tx_end", [c EXCEPT !.trans_stack = Pop(@)], <<>>))
              ELSE c

\* _Transaction.__enter__: the frame is pushed before tx_begin is checked.
enter(m) == check_errno(call("tx_begin", [m EXCEPT !.trans_stack = Append(@, CONTEXT)], <<>>))

RECURSIVE exit_free_loop(_)
\* `while self._trans_stack.pop() == self._FREE: lib.pmemobj_tx_end()`
exit_free_loop(m) ==
    IF m.trans_stack = <<>> THEN Raise(m, "IndexError")
    ELSE LET top == Top(m.trans_stack)
             p == [m EXCEPT !.trans_stack = Pop(@)]
         IN IF top = FREE
            THEN LET e == call("tx_end", p, <<>>) IN IF e.alive THEN exit_free_loop(e) ELSE e
            ELSE Raise(p, "RuntimeError")

\* An __exit__ that commits whether or not an exception is in flight.
exit_Commits(m) ==
    IF ~m.alive THEN m
    ELSE IF m.trans_stack = <<>> THEN Raise(m, "IndexError")
    ELSE LET top == Top(m.trans_stack)
             p == [m EXCEPT !.trans_stack = Pop(@)]
         IN IF top = FREE THEN exit_free_loop(p)
            ELSE LET w == IF tx_stage(p) = "WORK" THEN call("tx_commit", p, <<>>) ELSE p
                     e == IF w.alive THEN call("tx_end", w, <<>>) ELSE w
                 IN IF ~e.alive THEN e
                    ELSE IF e.ret # 0
                    THEN LET c == clear_transaction_cache(e) IN
                         IF e.ret # INTERNAL_ABORT_ERRNO THEN raise_per_errno(c) ELSE c
                    ELSE IF e.trans_stack = <<>> THEN commit_transaction_cache(e)
                    ELSE e
\* _Transaction.__exit__(*args); args[0] is the exception in flight (m.exc).
exit(m) ==
    IF ~m.alive THEN m
    ELSE IF m.trans_stack = <<>> THEN Raise(m, "IndexError")
    ELSE LET top == Top(m.trans_stack)
             p == [m EXCEPT !.trans_stack = Pop(@)]
         IN IF top = FREE THEN exit_free_loop(p)
            ELSE LET w == IF tx_stage(p) = "WORK"
                          THEN IF p.exc = NoExc THEN call("tx_commit", p, <<>>)
                               ELSE call("tx_abort", p, <<INTERNAL_ABORT_ERRNO>>)
                          ELSE p
                     e == IF w.alive THEN call("tx_end", w, <<>>) ELSE w
                 IN IF ~e.alive THEN e
                    ELSE IF e.ret # 0
                    THEN LET c == clear_transaction_cache(e) IN
                         IF e.ret # INTERNAL_ABORT_ERRNO THEN raise_per_errno(c) ELSE c
                    ELSE IF e.trans_stack = <<>> THEN commit_transaction_cache(e)
                    ELSE e

\* `with mm.transaction(): Body`: __exit__ does not run when __enter__ raised.
With(m, Body(_)) ==
    IF Raised(m) THEN m
    ELSE LET e == call("enter", m, <<>>) IN IF Raised(e) THEN e ELSE call("exit", Body(e), <<>>)

\* ----------------------------------------------------------- MemoryManager
Blk(m, oid) == m.heap[oid[2]]
\* MemoryManager.direct: _check_null(lib.pmemobj_direct(oid))
\* The pointer it returns is used at once: into a freed block it is a use
\* after free.
direct(m, oid) ==
    IF Raised(m) THEN m
    ELSE IF ~direct_ok(oid) THEN raise_per_errno(m)
    ELSE IF oid[2] \notin Offs \/ Blk(m, oid).kind = "free" THEN LibUndefined(m)
    ELSE m
\* ffi.cast('PObject *', direct(oid)): a slot array is no object header.
direct_obj(m, oid) ==
    LET d == direct(m, oid) IN
    IF Raised(d) THEN d ELSE IF Blk(d, oid).kind # "obj" THEN LibUndefined(d) ELSE d
\* MemoryManager.snapshot_range
snapshot_range(m, locs) == IF Raised(m) THEN m ELSE tx_add_range(m, locs)

\* MemoryManager.malloc: size 0 gives OID_NULL without asking the library.
malloc(m, block) ==
    IF Raised(m) THEN m
    ELSE IF block.kind = "arr" /\ block.slots = <<>> THEN RetOid(m, OID_NULL)
    ELSE LET a == call("tx_zalloc", m, <<block>>) IN
         IF a.oid = OID_NULL THEN raise_per_errno(a) ELSE a

\* MemoryManager.free
free(m, oid) ==
    IF Raised(m) THEN m
    ELSE LET f == check_errno(call("tx_free", m, <<oid>>)) IN
         IF Raised(f) THEN f ELSE purge(f, oid)

\* pmemobj_tx_zrealloc of a slot array to n > 0 slots: a new block holding
\* the old slots (zero beyond them), the old block freed.
tx_zrealloc(m, oid, n) ==
    IF Blk(m, oid).kind = "free" \/ oid[2] \in m.txFrees THEN LibUndefined(m) ELSE
    LET old == Blk(m, oid).slots
        a == call("tx_zalloc", m, <<[ZeroArr(n) EXCEPT !.slots =
                 [k \in 1..n |-> IF k <= Len(old) THEN old[k] ELSE OID_NULL]]>>)
    IN IF a.oid = OID_NULL THEN a
       ELSE RetOid(call("tx_free", a, <<oid>>), a.oid)
\* MemoryManager.realloc
realloc(m, oid, n) ==
    IF Raised(m) THEN m
    ELSE IF n = 0 THEN RetOid(call("free", m, <<oid>>), OID_NULL)
    ELSE LET a == call("tx_zrealloc", m, <<oid, n>>) IN
         IF Raised(a) THEN a ELSE IF a.oid = OID_NULL THEN raise_per_errno(a) ELSE a

SetRefcnt(m, oid, n) == [m EXCEPT !.heap[oid[2]].refcnt = n]
\* MemoryManager.incref
incref(m, oid) ==
    IF Raised(m) \/ oid = OID_NULL THEN m
    ELSE With(direct_obj(m, oid), LAMBDA x :
             LET sn == snapshot_range(x, {FieldLoc(oid, "refcnt")})
             IN SetRefcnt(sn, oid, Blk(sn, oid).refcnt + 1))

\* PersistentList fields read through self._body.
list_size(m, L) == Blk(m, L.o).size
list_allocated(m, L) == Blk(m, L.o).allocated
\* PersistentList._items: None (here OID_NULL) or the slot array.
list_items(m, L) == Blk(m, L.o).items
\* self._body is the pointer taken when the Python object was made: the
\* block must still be the list's.
body_ok(m, L) == L.o[2] \in Offs /\ Blk(m, L.o).kind = "obj"
\* self._items as a pointer: direct(ob_items), which must be a slot array
\* that holds the list's slots.
direct_items(m, L) ==
    LET items == list_items(m, L)
        d == direct(m, items)
    IN IF Raised(d) THEN d
       ELSE IF Blk(d, items).kind # "arr" \/ Len(Blk(d, items).slots) < list_size(d, L)
       THEN LibUndefined(d)
       ELSE d
Slot(m, items, i) == Blk(m, items).slots[i + 1]
SetSlot(m, items, i, oid) == [m EXCEPT !.heap[items[2]].slots[i + 1] = oid]

RECURSIVE clear_loop(_, _, _, _, _)
RECURSIVE type_index(_, _, _)

\* PersistentList._normalize_index (m.ret is the index; IndexError otherwise)
normalize_index(m, L, index) ==
    IF Raised(m) THEN m
    ELSE IF ~body_ok(m, L) THEN LibUndefined(m)
    ELSE LET i == IF index < 0 THEN index + list_size(m, L) ELSE index IN
         IF i < 0 \/ i >= list_size(m, L) THEN Raise(m, "IndexError") ELSE Ret(m, i)

\* PersistentList.__getitem__ (m.val is the element)
getitem(m, L, index) ==
    LET n == normalize_index(m, L, index) IN
    IF Raised(n) THEN n
    ELSE LET it == direct_items(n, L) IN
         IF Raised(it) THEN it ELSE call("resurrect", it, <<Slot(it, list_items(it, L), n.ret)>>)

\* MemoryManager._resurrect_builtins_str: the bytes up to the first NUL
resurrect_builtins_str(m, oid) == utf8_decode(ffi_string(Blk(m, oid).body))

\* MemoryManager.resurrect (m.val is the object)
resurrect(m, oid) ==
    IF Raised(m) THEN m
    ELSE IF has_obj_from_oid(m, oid) THEN RetVal(m, obj_from_oid(m, oid))
    ELSE LET d == direct_obj(m, oid) IN
         IF Raised(d) THEN d
         ELSE LET type_code == Blk(d, oid).type IN
              IF type_code = 0
              THEN RetVal(cache(d, oid, V_List(oid), FALSE), V_List(oid))
              ELSE LET c == IF type_code = 1 THEN RetVal(d, V_Str(CLS_STR))
                            ELSE call("getitem", d, <<d.type_table, type_code>>)
                   IN IF Raised(c) THEN c
                      ELSE IF c.val.t # "str" THEN Raise(c, "AttributeError")
                      ELSE IF c.val.s = CLS_STR
                      THEN LET v == V_Str(resurrect_builtins_str(c, oid))
                           IN RetVal(cache(c, oid, v, FALSE), v)
                      ELSE IF c.val.s = CLS_INT
                      THEN LET i_str == resurrect_builtins_str(c, oid) IN
                           IF int_ok(i_str)
                           THEN RetVal(cache(c, oid, V_Int(int_parse(i_str)), FALSE),
                                       V_Int(int_parse(i_str)))
                           ELSE Raise(c, "ValueError")
                      ELSE Raise(c, "NameError")

\* Sequence.index(value) on the type table: self[0], self[1], ... until the
\* value is met (m.ret is its index) or IndexError ends the scan (ValueError).
type_index(m, cls_str, i) ==
    LET g == call("getitem", m, <<m.type_table, i>>) IN
    IF g.exc = "IndexError" THEN Raise(g, "ValueError")
    ELSE IF Raised(g) THEN g
    ELSE IF g.val = V_Str(cls_str) THEN Ret(g, i)
    ELSE type_index(g, cls_str, i + 1)

\* A _get_type_code that puts a new class in front of the registry.
get_type_code_Front(m, cls_str) ==
    IF Raised(m) THEN m
    ELSE IF cls_str = CLS_LIST THEN Ret(m, 0)
    ELSE IF cls_str = CLS_STR THEN Ret(m, 1)
    ELSE LET f == type_index(m, cls_str, 0) IN
         IF f.exc = "ValueError"
         THEN LET a == call("insert", [f EXCEPT !.exc = NoExc], <<f.type_table, 0, V_Str(cls_str)>>)
              IN IF Raised(a) THEN a ELSE Ret(a, 0)
         ELSE f

\* MemoryManager._get_type_code (m.ret is the code).  _type_code_cache holds
\* PersistentList and str only; every other class is looked up in the type
\* table and appended to it when missing.
get_type_code(m, cls_str) ==
    IF Raised(m) THEN m
    ELSE IF cls_str = CLS_LIST THEN Ret(m, 0)
    ELSE IF cls_str = CLS_STR THEN Ret(m, 1)
    ELSE LET f == type_index(m, cls_str, 0) IN
         IF f.exc = "ValueError"
         THEN LET a == call("insert", [f EXCEPT !.exc = NoExc], <<f.type_table, list_size(f, f.type_table), V_Str(cls_str)>>)
              IN IF Raised(a) THEN a ELSE Ret(a, list_size(a, a.type_table) - 1)
         ELSE f

\* MemoryManager._persist_builtins_str (m.oid is the new OID)
persist_builtins_str(m, s) ==
    LET t == call("get_type_code", m, <<CLS_STR>>) IN
    With(t, LAMBDA x :
        LET a == call("malloc", x, <<[ZeroObj EXCEPT !.body = [k \in 1..(Len(utf8_encode(s)) + 1) |-> 0]]>>)
            d == direct(a, a.oid)
        IN IF Raised(d) THEN d
           ELSE [d EXCEPT !.heap[d.oid[2]].type = t.ret,
                          !.heap[d.oid[2]].body = utf8_encode(s) \o <<0>>])

\* MemoryManager._persist_builtins_int: the decimal form stored as a str
\* body, its type code then set to int's.
persist_builtins_int(m, i) ==
    LET t == call("get_type_code", m, <<CLS_INT>>) IN
    With(t, LAMBDA x :
        LET a == call("persist_builtins_str", x, <<repr_int(i)>>)
            d == direct(a, a.oid)
        IN IF Raised(d) THEN d ELSE [d EXCEPT !.heap[d.oid[2]].type = t.ret])

\* persist that stores nothing for a class without codec and raises nothing.
persist_Accepts(m, obj) ==
    IF Raised(m) THEN m
    ELSE IF has_oid_from_obj(m, obj) THEN RetOid(m, oid_from_obj(m, obj))
    ELSE IF obj.t = "plist" THEN RetOid(cache(m, obj.o, obj, FALSE), obj.o)
    ELSE IF obj.t \notin {"str", "int"} THEN RetOid(m, OID_NULL)
    ELSE LET a == IF obj.t = "str" THEN call("persist_builtins_str", m, <<obj.s>>)
                  ELSE call("persist_builtins_int", m, <<obj.i>>)
         IN IF Raised(a) THEN a ELSE cache(a, a.oid, obj, depth(a) > 0)

\* MemoryManager.persist (m.oid is the OID)
persist(m, obj) ==
    IF Raised(m) THEN m
    ELSE IF has_oid_from_obj(m, obj) THEN RetOid(m, oid_from_obj(m, obj))
    ELSE IF obj.t = "plist" THEN RetOid(cache(m, obj.o, obj, FALSE), obj.o)
    ELSE IF obj.t \notin {"str", "int"} THEN Raise(m, "TypeError")
    ELSE LET a == IF obj.t = "str" THEN call("persist_builtins_str", m, <<obj.s>>)
                  ELSE call("persist_builtins_int", m, <<obj.i>>)
         IN IF Raised(a) THEN a ELSE cache(a, a.oid, obj, depth(a) > 0)

\* MemoryManager.decref
decref(m, oid) ==
    IF Raised(m) THEN m
    ELSE With(direct_obj(m, oid), LAMBDA x :
             LET sn == snapshot_range(x, {FieldLoc(oid, "refcnt")}) IN
             IF Blk(sn, oid).refcnt <= 0 THEN Raise(sn, "AssertionError")
             ELSE LET dn == SetRefcnt(sn, oid, Blk(sn, oid).refcnt - 1) IN
                  IF Blk(dn, oid).refcnt < 1 THEN call("deallocate", dn, <<oid>>) ELSE dn)

\* xdecref that leaves the reference count as it is.
xdecref_Keeps(m, oid) == m

\* MemoryManager.xdecref
xdecref(m, oid) == IF oid # OID_NULL THEN call("decref", m, <<oid>>) ELSE m

\* MemoryManager._deallocate
deallocate(m, oid) ==
    IF Raised(m) THEN m
    ELSE LET w == With(m, LAMBDA x :
                      LET r == call("resurrect", x, <<oid>>)
                          c == IF ~Raised(r) /\ r.val.t = "plist" THEN call("clear", r, <<r.val>>) ELSE r
                      IN call("free", c, <<oid>>))
         IN IF ~Raised(w) /\ w.track_free.on
            THEN [w EXCEPT !.track_free.oids = @ \cup {oid}]
            ELSE w

\* A _resize that stores the new slot array and size but not `allocated`.
resize_StaleAllocated(m, L, newsize) ==
    IF Raised(m) THEN m
    ELSE LET allocated == list_allocated(m, L) IN
    IF allocated >= newsize /\ newsize >= allocated \div 2
    THEN With(m, LAMBDA x :
             [snapshot_range(x, {FieldLoc(L.o, "size")})
                  EXCEPT !.heap[L.o[2]].size = newsize])
    ELSE LET new_allocated == IF newsize = 0 THEN 0
                              ELSE (newsize \div 8) + (IF newsize < 9 THEN 3 ELSE 6) + newsize
             items == list_items(m, L)
         IN With(IF items = OID_NULL THEN m ELSE direct_items(m, L), LAMBDA x :
                LET a == IF items = OID_NULL THEN call("malloc", x, <<ZeroArr(new_allocated)>>)
                         ELSE call("realloc", x, <<list_items(x, L), new_allocated>>)
                    sn == snapshot_range(a, {FieldLoc(L.o, f) :
                              f \in {"refcnt", "type", "size", "items", "allocated"}})
                IN IF Raised(sn) THEN sn
                   ELSE [sn EXCEPT !.heap[L.o[2]].items = a.oid,
                                   !.heap[L.o[2]].size = newsize])

\* PersistentList._resize
resize(m, L, newsize) ==
    IF Raised(m) THEN m
    ELSE LET allocated == list_allocated(m, L) IN
    IF allocated >= newsize /\ newsize >= allocated \div 2
    THEN IF list_items(m, L) = OID_NULL /\ newsize # 0 THEN Raise(m, "AssertionError")
         ELSE With(m, LAMBDA x :
                  [snapshot_range(x, {FieldLoc(L.o, "size")})
                       EXCEPT !.heap[L.o[2]].size = newsize])
    ELSE LET new_allocated == IF newsize = 0 THEN 0
                              ELSE (newsize \div 8) + (IF newsize < 9 THEN 3 ELSE 6) + newsize
             items == list_items(m, L)
         IN With(IF items = OID_NULL THEN m ELSE direct_items(m, L), LAMBDA x :
                LET a == IF items = OID_NULL THEN call("malloc", x, <<ZeroArr(new_allocated)>>)
                         ELSE call("realloc", x, <<list_items(x, L), new_allocated>>)
                    sn == snapshot_range(a, {FieldLoc(L.o, f) :
                              f \in {"refcnt", "type", "size", "items", "allocated"}})
                IN IF Raised(sn) THEN sn
                   ELSE [sn EXCEPT !.heap[L.o[2]].items = a.oid,
                                   !.heap[L.o[2]].allocated = new_allocated,
                                   !.heap[L.o[2]].size = newsize])

\* The slots a snapshot of n PObjPtr from slot `index` on covers.
SlotRange(items, index, n) == UNION {SlotLocs(items, k + 1) : k \in index..(index + n - 1)}

\* An insert that stores the value without moving the suffix.
insert_Unshifted(m, L, index0, value) ==
    IF Raised(m) THEN m
    ELSE IF ~body_ok(m, L) THEN LibUndefined(m)
    ELSE LET size == list_size(m, L)
             newsize == size + 1
         IN With(m, LAMBDA x :
             LET r == call("resize", x, <<L, newsize>>)
                 i1 == IF index0 < 0 THEN (IF index0 + size < 0 THEN 0 ELSE index0 + size)
                       ELSE index0
                 index == IF i1 > size THEN size ELSE i1
                 it == IF Raised(r) THEN r ELSE direct_items(r, L)
                 items == list_items(r, L)
                 sn == snapshot_range(it, SlotRange(items, index, newsize))
                 pv == call("persist", sn, <<value>>)
                 ic == call("incref", pv, <<pv.oid>>)
             IN IF Raised(ic) THEN ic ELSE SetSlot(ic, items, index, pv.oid))

\* PersistentList.insert
insert(m, L, index0, value) ==
    IF Raised(m) THEN m
    ELSE IF ~body_ok(m, L) THEN LibUndefined(m)
    ELSE LET size == list_size(m, L)
             newsize == size + 1
         IN With(m, LAMBDA x :
             LET r == call("resize", x, <<L, newsize>>)
                 i1 == IF index0 < 0 THEN (IF index0 + size < 0 THEN 0 ELSE index0 + size)
                       ELSE index0
                 index == IF i1 > size THEN size ELSE i1
                 it == IF Raised(r) THEN r ELSE direct_items(r, L)
                 items == list_items(r, L)
                 sn == snapshot_range(it, SlotRange(items, index, newsize))
                 sh == IF Raised(sn) THEN sn
                       ELSE [sn EXCEPT !.heap[items[2]].slots =
                                [k \in 1..Len(@) |-> IF k \in (index + 2)..(size + 1)
                                                     THEN @[k - 1] ELSE @[k]]]
                 pv == call("persist", sh, <<value>>)
                 ic == call("incref", pv, <<pv.oid>>)
             IN IF Raised(ic) THEN ic ELSE SetSlot(ic, items, index, pv.oid))

\* PersistentList.__setitem__: the snapshot is sizeof('PObjPtr *') bytes, a
\* pointer's size, which is the pool_uuid_lo half of the 16-byte slot.
setitem(m, L, index0, value) ==
    LET n == normalize_index(m, L, index0)
        items == list_items(m, L)
        it == IF Raised(n) THEN n ELSE direct_items(n, L)
    IN With(it, LAMBDA x :
           LET pv == call("persist", x, <<value>>)
               sn == snapshot_range(pv, {<<items[2], "slot_lo", n.ret + 1>>})
               xd == IF Raised(sn) THEN sn ELSE call("xdecref", sn, <<Slot(sn, items, n.ret)>>)
               st == IF Raised(xd) THEN xd ELSE SetSlot(xd, items, n.ret, pv.oid)
           IN call("incref", st, <<pv.oid>>))

\* PersistentList.__delitem__
delitem(m, L, index0) ==
    LET n == normalize_index(m, L, index0)
        size == list_size(m, L)
        newsize == size - 1
        items == list_items(m, L)
        it == IF Raised(n) THEN n ELSE direct_items(n, L)
    IN With(it, LAMBDA x :
           LET sn == snapshot_range(x, SlotRange(items, n.ret, size))
               dc == call("decref", sn, <<Slot(sn, items, n.ret)>>)
               sh == IF Raised(dc) THEN dc
                     ELSE [dc EXCEPT !.heap[items[2]].slots =
                              [k \in 1..Len(@) |-> IF k \in (n.ret + 1)..newsize
                                                   THEN @[k + 1] ELSE @[k]]]
           IN call("resize", sh, <<L, newsize>>))

\* The loop of PersistentList.clear over range(self._size); the slots are
\* written without a snapshot.
clear_loop(m, L, items, i, n) ==
    IF Raised(m) \/ i >= n THEN m
    ELSE LET oid == Slot(m, items, i) IN
         IF oid = OID_NULL THEN clear_loop(m, L, items, i + 1, n)
         ELSE clear_loop(call("decref", SetSlot(m, items, i, OID_NULL), <<oid>>), L, items, i + 1, n)

\* PersistentList.clear (and _deallocate, which calls it)
clear(m, L) ==
    IF Raised(m) THEN m
    ELSE IF ~body_ok(m, L) THEN LibUndefined(m)
    ELSE IF list_size(m, L) = 0 THEN m
    ELSE LET items == list_items(m, L) IN
         With(direct_items(m, L), LAMBDA x :
             call("resize", clear_loop(x, L, items, 0, list_size(x, L)), <<L, 0>>))

\* MutableSequence.append: self.insert(len(self), value)
append(m, L, value) ==
    IF Raised(m) THEN m ELSE call("insert", m, <<L, list_size(m, L), value>>)

RECURSIVE extend(_, _, _)
\* MutableSequence.extend: append(v) is insert(len(self), v) for each v.
extend(m, L, values) ==
    IF Raised(m) \/ values = <<>> THEN m
    ELSE extend(call("insert", m, <<L, list_size(m, L), Head(values)>>), L, Tail(values))

\* PersistentList.__init__(values, __manager__=mm): m.val is the new object.
list_init(m, values) ==
    LET w == With(m, LAMBDA x :
                 LET a == call("malloc", x, <<ZeroObj>>)
                     d == direct(a, a.oid)
                     t == call("get_type_code", d, <<CLS_LIST>>)
                 IN IF Raised(t) THEN t
                    ELSE RetVal([t EXCEPT !.heap[a.oid[2]].type = t.ret], V_List(a.oid)))
    IN IF Raised(w) THEN w ELSE RetVal(extend(w, w.val, values), w.val)

\* ---------------------------------------------------- PersistentObjectPool
\* Iteration order of a Python set of OIDs: unspecified; the model walks it
\* by ascending or (rev) descending offset.
RECURSIVE OrderSeq(_, _)
OrderSeq(S, rev) ==
    IF S = {} THEN <<>>
    ELSE LET x == CHOOSE y \in S : \A z \in S : IF rev THEN z[2] <= y[2] ELSE y[2] <= z[2]
         IN <<x>> \o OrderSeq(S \ {x}, rev)

ZeroCounts ==
    [containers_total |-> 0, other_total |-> 0, orphans0_gced |-> 0, other_live |-> 0,
     containers_live |-> 0, collections_gced |-> 0, orphans1_gced |-> 0, other_gced |-> 0]
\* type_counts of gc: the PObjects of each class, by class string.
ZeroTypes == [c \in {CLS_LIST, CLS_STR, CLS_INT} |-> 0]
\* The working sets of one gc() call, and what it returns (types, counts).
NewGc ==
    [containers |-> {}, other |-> {}, orphans |-> {}, live |-> <<>>,
     counts |-> ZeroCounts, types |-> ZeroTypes]

RECURSIVE gc_catalog(_, _)
\* gc, "Catalog all PObjects": pmemobj_first / pmemobj_next over the pool.
gc_catalog(m, off) ==
    IF Raised(m) \/ off > MaxOid THEN m
    ELSE IF m.heap[off].kind # "obj" THEN gc_catalog(m, off + 1)
    ELSE LET oid == Oid(off)
             t == call("getitem", m, <<m.type_table, m.heap[off].type>>)
         IN IF Raised(t) THEN t
            ELSE IF t.val.t # "str" \/ t.val.s \notin {CLS_LIST, CLS_STR, CLS_INT}
            THEN Raise(t, "ImportError")
            ELSE gc_catalog(
                   IF t.heap[off].refcnt = 0
                   THEN [t EXCEPT !.g.types[t.val.s] = @ + 1, !.g.orphans = @ \cup {oid}]
                   ELSE IF t.val.s = CLS_LIST
                   THEN [t EXCEPT !.g.types[t.val.s] = @ + 1, !.g.containers = @ \cup {oid}]
                   ELSE [t EXCEPT !.g.types[t.val.s] = @ + 1, !.g.other = @ \cup {oid}],
                   off + 1)

RECURSIVE gc_orphans(_, _)
\* gc, "Clean up refcount 0 orphans": `for oid in orphans: _deallocate(oid)`
gc_orphans(m, todo) ==
    IF Raised(m) \/ todo = <<>> THEN m
    ELSE gc_orphans(call("deallocate", m, <<Head(todo)>>), Tail(todo))

\* A pass that leaves the refcount-0 orphans allocated.
gc_orphans_all_Skips(m, rev) == m

gc_orphans_all(m, rev) == gc_orphans(m, OrderSeq(m.g.orphans, rev))

RECURSIVE gc_traverse(_, _, _, _)
\* gc: the inner loop over resurrect(oid)._traverse(), slot i of n.
gc_traverse(m, items, i, n) ==
    IF Raised(m) \/ i >= n THEN m
    ELSE LET sub_key == Slot(m, items, i) IN
         gc_traverse(
           IF sub_key \in m.g.containers
           THEN [m EXCEPT !.g.containers = @ \ {sub_key}, !.g.live = Append(@, sub_key)]
           ELSE IF sub_key \in m.g.other
           THEN [m EXCEPT !.g.other = @ \ {sub_key}, !.g.counts.other_live = @ + 1]
           ELSE m,
           items, i + 1, n)

\* A pass that marks nothing below the type table and the root as live.
gc_trace_Blind(m, k) == m

RECURSIVE gc_trace(_, _)
\* gc, "Trace the object tree": `for oid in live`, live growing as it goes.
gc_trace(m, k) ==
    IF Raised(m) \/ k > Len(m.g.live) THEN m
    ELSE LET r == call("resurrect", m, <<m.g.live[k]>>) IN
         IF Raised(r) THEN r
         ELSE IF r.val.t # "plist" THEN Raise(r, "AttributeError")
         ELSE IF ~body_ok(r, r.val) THEN LibUndefined(r)
         ELSE LET items == list_items(r, r.val)
                  n == list_size(r, r.val)
                  d == IF items = OID_NULL THEN r ELSE direct_items(r, r.val)
              IN gc_trace(gc_traverse(d, items, 0, n), k + 1)

RECURSIVE gc_containers(_, _)
\* gc, "Everything left is unreferenced via the root, deallocate it."
gc_containers(m, todo) ==
    IF Raised(m) \/ todo = <<>> THEN m
    ELSE IF Head(todo) \in m.track_free.oids THEN gc_containers(m, Tail(todo))
    ELSE gc_containers(
           With(m, LAMBDA x : call("deallocate", call("incref", x, <<Head(todo)>>), <<Head(todo)>>)),
           Tail(todo))

\* A pass that leaves the unreachable containers allocated.
gc_containers_all_Skips(m, rev) == m

gc_containers_all(m, rev) == gc_containers(m, OrderSeq(m.g.containers, rev))

RECURSIVE gc_other(_, _)
\* gc: the loop over what is left in `other`.
gc_other(m, todo) ==
    IF Raised(m) \/ todo = <<>> THEN m
    ELSE IF Head(todo) \in m.track_free.oids THEN gc_other(m, Tail(todo))
    ELSE LET r == call("resurrect", m, <<Head(todo)>>)
             d == call("deallocate", r, <<Head(todo)>>)
         IN gc_other(IF Raised(d) THEN d
                     ELSE [d EXCEPT !.g.counts.orphans1_gced = @ + 1], Tail(todo))

gc_other_all(m, rev) == gc_other(m, OrderSeq(m.g.other, rev))

\* gc: the totals recorded after the catalog loop.
gc_totals(m) ==
    IF Raised(m) THEN m
    ELSE [m EXCEPT !.g.counts.containers_total = Cardinality(m.g.containers),
                   !.g.counts.other_total = Cardinality(m.g.other),
                   !.g.counts.orphans0_gced = Cardinality(m.g.orphans)]

\* gc: `containers.remove(self.mm._type_table._oid); live = [...]`
gc_live(m) ==
    IF Raised(m) THEN m
    ELSE IF m.type_table.o \notin m.g.containers THEN Raise(m, "KeyError")
    ELSE [m EXCEPT !.g.containers = @ \ {m.type_table.o}, !.g.live = <<m.type_table.o>>]

\* gc: the root, resurrected into m.val, leaves `containers` or `other`.
gc_root(m, root_oid) ==
    IF Raised(m) THEN m
    ELSE IF m.val.t = "plist"
    THEN IF root_oid \notin m.g.containers THEN Raise(m, "KeyError")
         ELSE [m EXCEPT !.g.containers = @ \ {root_oid}, !.g.live = Append(@, root_oid)]
    ELSE IF m.val # V_None
    THEN IF root_oid \notin m.g.other THEN Raise(m, "KeyError")
         ELSE [m EXCEPT !.g.other = @ \ {root_oid}]
    ELSE m

\* gc: `gc_counts['containers-live'] = len(live); self.mm._track_free = set()`
gc_track(m) ==
    IF Raised(m) THEN m
    ELSE [m EXCEPT !.g.counts.containers_live = Len(m.g.live),
                   !.track_free = [on |-> TRUE, oids |-> {}]]

\* A pass that reports every container it catalogued as collected.
gc_collected_Total(m) ==
    IF Raised(m) THEN m
    ELSE [m EXCEPT !.g.counts.collections_gced = m.g.counts.containers_total]

\* gc: `gc_counts['collections-gced'] = len(containers)`
gc_collected(m) ==
    IF Raised(m) THEN m
    ELSE [m EXCEPT !.g.counts.collections_gced = Cardinality(m.g.containers)]

\* gc: the last count and `self.mm._track_free = None`
gc_end(m) ==
    IF Raised(m) THEN m
    ELSE [m EXCEPT !.g.counts.other_gced =
                       Cardinality(m.g.other) - m.g.counts.orphans1_gced,
                   !.track_free = NoTrack]

\* gc, from "Trace the object tree" on; m is the machine after the orphans.
gc_sweep(m, rev) ==
    gc_end(gc_other_all(gc_collected(gc_containers_all(gc_track(gc_trace(
        gc_root(call("resurrect", gc_live(m), <<m.proot.root_object>>),
                m.proot.root_object), 1)), rev)), rev))

\* PersistentObjectPool.gc (debug off); m.g.counts is the returned gc_counts.
gc(m, rev) ==
    IF Raised(m) THEN m
    ELSE gc_sweep(gc_orphans_all(gc_totals(
             gc_catalog([m EXCEPT !.g = NewGc, !.ev = Append(@, "gc")], 1)), rev), rev)

EmptyHeap == [off \in Offs |-> FreeBlock]
NullRoot == [type_table |-> OID_NULL, root_object |-> OID_NULL]

\* MemoryManager._create_type_table (m.oid is the table's OID)
create_type_table(m) ==
    LET w == With(m, LAMBDA x :
                 LET l == call("list_init", x, <<<<V_Str(CLS_LIST), V_Str(CLS_STR)>>>>)
                     i == call("incref", l, <<l.val.o>>)
                 IN IF Raised(i) THEN i ELSE RetVal(cache(i, l.val.o, l.val, TRUE), l.val))
    IN IF Raised(w) THEN w ELSE RetOid([w EXCEPT !.type_table = w.val], w.val.o)

\* _check_null(pmemobj_open(...)): ENOENT on a missing file.
pmemobj_open(m) ==
    IF m.exists THEN [m EXCEPT !.libOpen = TRUE]
    ELSE raise_per_errno([m EXCEPT !.errno = ENOENT])
\* _check_null(pmemobj_create(...)): EEXIST on an existing file.
pmemobj_create(m, pool_size) ==
    IF m.exists THEN raise_per_errno([m EXCEPT !.errno = EEXIST])
    ELSE [m EXCEPT !.exists = TRUE, !.heap = EmptyHeap, !.proot = NullRoot,
                   !.capacity = pool_size, !.libOpen = TRUE]

\* A constructor that takes flag 'c' for 'x' and flag 'r' for 'w'.
pool_ptr_Confused(m, flag, pool_size) ==
    IF flag \in {"w", "r"} THEN pmemobj_open(m)
    ELSE IF flag \in {"x", "c"} THEN pmemobj_create(m, pool_size)
    ELSE Raise(m, "ValueError")
\* PersistentObjectPool.__init__, the choice by flag of how self._pool_ptr
\* is obtained.
pool_ptr(m, flag, pool_size) ==
    IF flag = "w" \/ (flag = "c" /\ m.exists) THEN pmemobj_open(m)
    ELSE IF flag = "x" \/ (flag = "c" /\ ~m.exists) THEN pmemobj_create(m, pool_size)
    ELSE Raise(m, "ValueError")

\* A creation that stores the OID of the type table without snapshotting the
\* root record.
init_type_table_Unlogged(x) ==
    LET c == call("create_type_table", x, <<>>)
    IN IF Raised(c) THEN c ELSE [c EXCEPT !.proot.type_table = c.oid]
\* PersistentObjectPool.__init__, the body of the transaction that creates
\* the type table and stores its OID in the root record.
init_type_table(x) ==
    LET c == call("create_type_table", x, <<>>)
        sn == snapshot_range(c, {RootLoc("type_table")})
    IN IF Raised(sn) THEN sn ELSE [sn EXCEPT !.proot.type_table = c.oid]

\* PersistentObjectPool.__init__(filename, flag, pool_size)
pool_init(m, flag, pool_size, rev) ==
    LET exists == m.exists
        lib == pool_ptr(m, flag, pool_size)
    IN IF Raised(lib) THEN lib
       ELSE LET mm == cache_clear([lib EXCEPT !.handle = "failed", !.trans_stack = <<>>,
                                              !.track_free = NoTrack, !.type_table = V_None])
                tt == IF mm.proot.type_table = OID_NULL
                      THEN With(mm, init_type_table)
                      ELSE LET r == call("resurrect", mm, <<mm.proot.type_table>>)
                           IN IF Raised(r) THEN r ELSE [r EXCEPT !.type_table = r.val]
                \* self.gc(): what it returns is dropped
                g1 == IF exists THEN [call("gc", tt, <<rev>>) EXCEPT !.g = m.g] ELSE tt
            IN IF Raised(g1) THEN g1 ELSE [g1 EXCEPT !.handle = "open"]

\* The points inside the creation of a pool at which the process can end:
\* after pmemobj_create, inside the transaction after _create_type_table has
\* returned, and inside it after the root record has been written.
CreatePoints == 0..2
\* What a process that ended at `point` of the creation of a pool leaves in
\* the file: the library rolls an unfinished transaction back when the file
\* is next opened; nothing the process held in memory survives.
create_stopped(m, point) ==
    LET mm == cache_clear([pmemobj_create(m, MaxOid) EXCEPT
                              !.handle = "failed", !.trans_stack = <<>>,
                              !.track_free = NoTrack, !.type_table = V_None])
        at == IF point = 0 THEN mm
              ELSE LET e == call("enter", mm, <<>>)
                   IN IF point = 1 THEN call("create_type_table", e, <<>>)
                      ELSE init_type_table(e)
        r == IF at.stage = "NONE" THEN at ELSE tx_rollback(at)
    IN [m EXCEPT !.exists = TRUE, !.capacity = at.capacity, !.alive = at.alive,
                 !.heap = r.heap, !.proot = r.proot]

\* PersistentObjectPool.close
close(m, rev) ==
    IF m.handle = "closed" THEN m
    ELSE LET g1 == [call("gc", [m EXCEPT !.handle = "closed"], <<rev>>) EXCEPT !.g = m.g] IN
         IF Raised(g1) THEN g1
         ELSE [g1 EXCEPT !.libOpen = FALSE, !.ev = Append(@, "pmemobj_close")]

\* PersistentObjectPool.root (getter): m.val
root_get(m) == call("resurrect", m, <<m.proot.root_object>>)

\* PersistentObjectPool.root (setter); the log.debug call reads self.root first.
root_set(m, value) ==
    With(call("root_get", m, <<>>), LAMBDA x :
        LET pv == call("persist", x, <<value>>)
            sn == snapshot_range(pv, {RootLoc("root_object")})
            xd == IF Raised(sn) THEN sn ELSE call("xdecref", sn, <<sn.proot.root_object>>)
            st == IF Raised(xd) THEN xd ELSE [xd EXCEPT !.proot.root_object = pv.oid]
        IN call("incref", st, <<pv.oid>>))

\* PersistentObjectPool.new(PersistentList, values): m.val
new_list(m, values) == call("list_init", m, <<values>>)

\* ------------------------------------------------------------ observations
\* What the program sees of a value when it compares it (==): an immutable
\* by its class and content, a PersistentList by its elements
\* (PersistentList.__eq__ walks both sequences).
NoView == [t |-> "", i |-> 0, s |-> <<>>, e |-> <<>>]
ErrView == [t |-> "error", i |-> 0, s |-> <<>>, e |-> <<>>]
ImmView(v) == [t |-> v.t, i |-> v.i, s |-> v.s, e |-> <<>>]
\* The Python list `values` as the right-hand side of such a comparison.
ListView(values) ==
    [t |-> "list", i |-> 0, s |-> <<>>, e |-> [k \in 1..Len(values) |-> ImmView(values[k])]]
\* The immutable that a call left in m.val, or the failure of the call.
ResultView(m) == IF Raised(m) THEN ErrView ELSE ImmView(m.val)
ElemView(m, L, k) == ResultView(call("getitem", m, <<L, k>>))
ValueView(m, v) ==
    IF v.t = "plist" /\ ~body_ok(m, v) THEN ErrView
    ELSE IF v.t = "plist"
    THEN [t |-> "list", i |-> 0, s |-> <<>>,
          e |-> [k \in 1..list_size(m, v) |-> ElemView(m, v, k - 1)]]
    ELSE ImmView(v)
\* What a read of `pop.root` gave: m is the machine after root_get.
RootView(m) == IF Raised(m) THEN ErrView ELSE ValueView(m, m.val)
\* `pop.root` as the program would read it now.
ReadRoot(m) == RootView(call("root_get", m, <<>>))
View(m) == call("View", m, <<>>)
\* The root a fresh handle reads from the file: no cache, the stored type table.
StoredView(m) ==
    IF m.proot.type_table = OID_NULL THEN NoView
    ELSE View(cache_clear([m EXCEPT !.type_table = V_List(m.proot.type_table)]))
\* The root OID names a live object (or is null).
RootValid(m) ==
    IF m.proot.root_object = OID_NULL THEN TRUE
    ELSE /\ m.heap[m.proot.root_object[2]].kind = "obj"
         /\ m.proot.root_object[2] \notin m.txFrees

\* pop.root.f(*a): the root is read, then its method is called; a root that
\* is no list has no such method.
on_root(f, r, a) ==
    IF Raised(r) THEN r
    ELSE IF r.val.t # "plist" THEN Raise(r, "AttributeError")
    ELSE call(f, r, <<r.val>> \o a)
root_call(m, f, a) == on_root(f, call("root_get", m, <<>>), a)
\* pop.root[k]: m.val
root_item(m, k) == on_root("getitem", call("root_get", m, <<>>), <<k>>)
\* pop.root[k].append(pop.root[j]): t is the machine after pop.root[k], v the
\* one after pop.root[j].
append_item(t, v) ==
    IF Raised(v) THEN v
    ELSE IF t.val.t # "plist" THEN Raise(v, "AttributeError")
    ELSE call("append", v, <<t.val, v.val>>)
nest_append(m, k, j) ==
    IF Raised(root_item(m, k)) THEN root_item(m, k)
    ELSE append_item(root_item(m, k), root_item(root_item(m, k), j))

\* A call of a method or of a library function by name: f is the name, m the
\* machine it runs on and a the tuple of its other arguments.  The Python code
\* reaches its methods through attribute lookup (self.mm.persist,
\* self._p_mm.incref, lib.pmemobj_tx_begin, getattr(self, resurrector)).
call(f, m, a) ==
    CASE f = "tx_begin" -> tx_begin(m)
      [] f = "tx_abort" -> tx_abort(m, a[1])
      [] f = "tx_commit" -> tx_commit(m)
      [] f = "tx_end" -> tx_end(m)
      [] f = "tx_zalloc" -> tx_zalloc(m, a[1])
      [] f = "tx_free" -> tx_free(m, a[1])
      [] f = "begin" -> begin(m)
      [] f = "commit" -> commit(m)
      [] f = "abort" -> abort(m, a[1])
      [] f = "enter" -> enter(m)
      [] f = "exit" -> exit(m)
      [] f = "malloc" -> malloc(m, a[1])
      [] f = "free" -> free(m, a[1])
      [] f = "tx_zrealloc" -> tx_zrealloc(m, a[1], a[2])
      [] f = "realloc" -> realloc(m, a[1], a[2])
      [] f = "incref" -> incref(m, a[1])
      [] f = "getitem" -> getitem(m, a[1], a[2])
      [] f = "resurrect" -> resurrect(m, a[1])
      [] f = "get_type_code" -> get_type_code(m, a[1])
      [] f = "persist_builtins_str" -> persist_builtins_str(m, a[1])
      [] f = "persist_builtins_int" -> persist_builtins_int(m, a[1])
      [] f = "persist" -> persist(m, a[1])
      [] f = "decref" -> decref(m, a[1])
      [] f = "xdecref" -> xdecref(m, a[1])
      [] f = "deallocate" -> deallocate(m, a[1])
      [] f = "resize" -> resize(m, a[1], a[2])
      [] f = "insert" -> insert(m, a[1], a[2], a[3])
      [] f = "setitem" -> setitem(m, a[1], a[2], a[3])
      [] f = "delitem" -> delitem(m, a[1], a[2])
      [] f = "clear" -> clear(m, a[1])
      [] f = "list_init" -> list_init(m, a[1])
      [] f = "gc" -> gc(m, a[1])
      [] f = "create_type_table" -> create_type_table(m)
      [] f = "pool_init" -> pool_init(m, a[1], a[2], a[3])
      [] f = "create_stopped" -> create_stopped(m, a[1])
      [] f = "close" -> close(m, a[1])
      [] f = "root_get" -> root_get(m)
      [] f = "root_set" -> root_set(m, a[1])
      [] f = "new_list" -> new_list(m, a[1])
      [] f = "append" -> append(m, a[1], a[2])
      [] f = "root_call" -> root_call(m, a[1], a[2])
      [] f = "nest_append" -> nest_append(m, a[1], a[2])
      [] f = "View" -> ReadRoot(m)

\* ------------------------------------------------------------- the program
\* One Python process working on one pool file through one handle at a time.
\* The variables are the fields of the machine record (see above) and
\*   build     the build of the library the process runs on: "debug",
\*             "release", or "unset" as long as no call has reached an
\*             assertion on which the two differ
\*   scopes    how many `with pop.transaction():` blocks of the program are open
\*   pending   the exception that is propagating out of such a block
\*   held      the PersistentList made by pop.new that the program has not
\*             yet assigned (V_None when it holds none)
\*   last      history: the last operation, the exception it raised, and what
\*             held just before it
\*   ep        history of the current or last outermost transaction: the root
\*             read before it, what was called inside it, how it ended
\*   ref       the reference of the tests: the ordinary Python list the
\*             program keeps next to the list stored at root
VARIABLES
    heap, proot, exists, capacity, libOpen,
    stage, txd, undo, txAllocs, txFrees, errno, build, alive,
    handle, trans_stack, cr, cp, tr, tp, type_table, track_free, g, ev,
    scopes, pending, held, last, ep, ref,
    lock, pc

\* The pool and the history of the single-threaded program.
poolVars ==
    <<heap, proot, exists, capacity, libOpen,
      stage, txd, undo, txAllocs, txFrees, errno, build, alive,
      handle, trans_stack, cr, cp, tr, tp, type_table, track_free, g, ev,
      scopes, pending, held, last, ep, ref>>
vars == <<poolVars, lock, pc>>

\* The machine as an operation finds it: nothing raised, no event yet.
M ==
    [heap |-> heap, proot |-> proot, exists |-> exists, capacity |-> capacity,
     libOpen |-> libOpen, stage |-> stage, txd |-> txd, undo |-> undo,
     txAllocs |-> txAllocs, txFrees |-> txFrees, errno |-> errno,
     libDebug |-> build = "debug", asserted |-> FALSE, alive |-> alive,
     handle |-> handle,
     trans_stack |-> trans_stack, cr |-> cr, cp |-> cp, tr |-> tr, tp |-> tp,
     type_table |-> type_table, track_free |-> track_free, g |-> g, ev |-> <<>>,
     exc |-> NoExc, ret |-> 0, oid |-> OID_NULL, val |-> V_None]

\* The outcomes of an operation: one, unless it reaches an assertion of the
\* library while the build is unset; then one for each build.
RECURSIVE Run(_, _, _)
Outcomes(f, m, a, r) ==
    IF build = "unset" /\ ~m.libDebug /\ r.asserted
    THEN {r} \cup Run(f, [m EXCEPT !.libDebug = TRUE], a)
    ELSE {r}
\* Run(f, m, a): the outcomes of the call f(*a) on machine m.
Run(f, m, a) == Outcomes(f, m, a, call(f, m, a))

\* PersistentObjectPool.lock, an RLock: the thread that owns it (0: none) and
\* how many times it has acquired it.
NoLock == [owner |-> 0, count |-> 0]
Threads == 1..NumThreads

\* The machine as an operation leaves it.  A statement of the single-threaded
\* program finds the lock free and leaves it free.
Store(m) ==
    /\ heap' = m.heap /\ proot' = m.proot /\ exists' = m.exists
    /\ capacity' = m.capacity /\ libOpen' = m.libOpen
    /\ stage' = m.stage /\ txd' = m.txd /\ undo' = m.undo
    /\ txAllocs' = m.txAllocs /\ txFrees' = m.txFrees /\ errno' = m.errno
    /\ build' = IF ~m.asserted THEN build
                ELSE IF m.libDebug THEN "debug" ELSE "release"
    /\ alive' = m.alive /\ handle' = m.handle
    /\ trans_stack' = m.trans_stack /\ cr' = m.cr /\ cp' = m.cp
    /\ tr' = m.tr /\ tp' = m.tp /\ type_table' = m.type_table
    /\ track_free' = m.track_free /\ g' = m.g /\ ev' = m.ev
    /\ UNCHANGED <<lock, pc>>

\* An episode: one outermost transaction of the program, from the begin() or
\* `with` that opens it on an empty stack to the moment the stack is empty
\* again, and the close and open that follow it.
\*   phase       "idle", "open", "ended", "closed" (the pool was closed after
\*               it), "reopened" (and opened again)
\*   rootBefore  the root read before it
\*   kinds       what ran in it: "top" (a bare root assignment, which is its
\*               own transaction), "scope", "begin", "assign", "commit",
\*               "commitErr" (commit() raised), "abortC" / "abortV"
\*               (abort(ECANCELED) / abort(EINVAL)), "raise", "err" (another
\*               call raised), "post" (a call after one of the ending kinds)
\*   assignedAt  the depths of the transaction stack at which the root was
\*               assigned
\*   at          the scope depth of the last ending kind
\*   lastv       the last value assigned to the root
\*   ops         begin(), commit(), abort() and raise statements run in it
\*   count       episodes of the run so far
\* The history follows an episode while it runs and through the close and the
\* open that come right after it; any other statement ends the history.
NoEp ==
    [phase |-> "idle", rootBefore |-> NoView, kinds |-> {},
     assignedAt |-> {}, at |-> 0, lastv |-> NoView, ops |-> 0, count |-> 0]
Idle == [NoEp EXCEPT !.count = ep.count]
Ending == {"abortC", "abortV", "commitErr", "raise", "err"}
EpOpen(first) ==
    IF ep.phase = "open" THEN ep
    ELSE [phase |-> "open",
          rootBefore |-> View(M), kinds |-> first, assignedAt |-> {}, at |-> 0,
          lastv |-> NoView, ops |-> 0, count |-> ep.count + 1]
EpEvent(e, kind, v, cost) ==
    [e EXCEPT !.kinds = @ \cup {kind} \cup (IF @ \cap Ending # {} THEN {"post"} ELSE {}),
              !.ops = @ + cost,
              !.assignedAt = IF kind = "assign" THEN @ \cup {Len(trans_stack)} ELSE @,
              !.lastv = IF kind = "assign" THEN v ELSE @,
              !.at = IF kind \in Ending THEN scopes ELSE @]
EpClose(e, m, sc) ==
    IF e.phase = "open" /\ sc = 0 /\ m.trans_stack = <<>>
    THEN [e EXCEPT !.phase = "ended"] ELSE e
\* The run may open another episode: it has one left, and the last one left
\* no transaction open and a valid root behind.
CanOpen ==
    /\ ep.count < MaxEpisodes
    /\ stage = "NONE" /\ trans_stack = <<>> /\ RootValid(M)
\* The statement may run: it belongs to the open episode, which has room for
\* it, or it opens an episode.
InBudget == IF ep.phase = "open" THEN ep.ops < MaxOps ELSE CanOpen

\* What a pass of the collector will meet (m is the machine before it): the
\* PObjects with refcount 0.
ZeroRefs(m) == {off \in Offs : m.heap[off].kind = "obj" /\ m.heap[off].refcnt = 0}
\* The lists with refcount 0 that have elements.
Owners(m) == {off \in ZeroRefs(m) : m.heap[off].type = 0 /\ m.heap[off].size > 0}

LastOf(act, exc) ==
    [act |-> act, exc |-> exc, flag |-> "", existed |-> exists,
     top |-> IF trans_stack = <<>> THEN "" ELSE Top(trans_stack),
     ok0 |-> RootValid(M), hb |-> handle, v |-> NoView,
     i |-> 0, arg |-> NoView, l0 |-> NoView,
     zs |-> {}, full |-> {}, cyc |-> {}, lists |-> {}, fr |-> {}, fr0 |-> {}]

\* The allocations that the call that led from the state to m freed: they
\* were allocated, and are free in m or will be when its transaction commits.
Frees(m) ==
    {off \in Offs : /\ heap[off].kind # "free"
                    /\ m.heap[off].kind = "free" \/ off \in m.txFrees \ txFrees}
DoneBy(act, m) == [LastOf(act, m.exc) EXCEPT !.fr = Frees(m)]

\* A statement of the program has run: an exception it raised propagates when
\* the statement is inside a `with` block, and is caught by the program
\* (assertRaises) at top level.
Stmt(act, m, v) ==
    /\ Store(m)
    /\ pending' = IF m.alive /\ scopes > 0 THEN m.exc ELSE NoExc
    /\ last' = [DoneBy(act, m) EXCEPT !.v = v]

\* The program can run its next statement.  Inside a transaction it runs
\* none after one that raised or aborted: it leaves the blocks it is in.
Ready ==
    /\ alive /\ handle = "open" /\ pending = NoExc
    /\ ep.phase = "open" => ep.kinds \cap Ending = {}
NumFree == Cardinality({k \in 1..Len(trans_stack) : trans_stack[k] = FREE})

\* The reference list of the tests (assertEqual(lst, [...])).
\*   on     the root is a list the program keeps a reference list for
\*   seq    the reference list
\*   heldv  the values the held list was made of
\*   n      list operations of the run so far
\*   plain  no statement so far deleted a slot holding None or stored a
\*          value that was an element already
\*   ph     how far the run is in `root = x; gc(); root = y; gc()`: 1 after
\*          root = x, 2 after the pass that follows it, 3 after root = y
\*          with y another value of the shape of x, 4 after the pass that
\*          follows that; 0 otherwise
\*   x      the value x of that sequence
\*   gb     what the pass before the replacement returned
\*   tx     the list statements run inside scoped transactions: the episode
\*          they belong to, their number, and the allocations as the first
\*          of them found them
NoRef ==
    [on |-> FALSE, seq |-> <<>>, heldv |-> <<>>, n |-> 0, plain |-> TRUE,
     ph |-> 0, x |-> NoView, gb |-> [types |-> ZeroTypes, counts |-> ZeroCounts],
     tx |-> [ep |-> 0, n |-> 0, heap |-> <<>>]]
\* Another statement than those of the sequence has run.
Off(r) == [r EXCEPT !.ph = 0, !.x = NoView, !.gb = NoRef.gb]
\* The shape of a value: its type and the types of its elements.
Shape(v) == [t |-> v.t, e |-> [k \in 1..Len(v.e) |-> v.e[k].t]]
\* y is another value than x, of the shape of x.
Replaces(x, y) == x # y /\ Shape(x) = Shape(y)
\* list semantics of Python on the reference: index check, position of an
\* index, insert, item assignment, item deletion.
py_index_ok(s, i) == 0 - Len(s) <= i /\ i < Len(s)
py_pos(s, i) == IF i < 0 THEN i + Len(s) ELSE i
py_insert(s, i, v) ==
    LET j == IF i < 0 THEN i + Len(s) ELSE i
        k == IF j < 0 THEN 0 ELSE IF j > Len(s) THEN Len(s) ELSE j
    IN SubSeq(s, 1, k) \o <<v>> \o SubSeq(s, k + 1, Len(s))
py_setitem(s, i, v) ==
    IF py_index_ok(s, i) THEN [s EXCEPT ![py_pos(s, i) + 1] = v] ELSE s
py_delitem(s, i) ==
    IF py_index_ok(s, i)
    THEN SubSeq(s, 1, py_pos(s, i)) \o SubSeq(s, py_pos(s, i) + 2, Len(s))
    ELSE s

Flags == {"w", "x", "c", "r", "q"}
\* Values the program assigns to the root inside and between transactions.
TxValues == {V_None, V_Int(10)}
\* Values of the round trips: ints, ASCII and non-ASCII strings, the empty
\* string, a string holding U+0000, None.
RoundValues ==
    {V_None, V_Int(5), V_Int(0 - 12), V_Str(<<>>), V_Str(<<97, 98>>),
     V_Str(<<97, 337>>), V_Str(<<97, 0, 98>>)}
ListValues == {<<>>, <<V_Str(<<97>>), V_Str(<<98>>)>>, <<V_Int(5), V_None>>}

Init ==
    /\ heap = EmptyHeap /\ proot = NullRoot /\ exists = FALSE
    /\ capacity = MaxOid /\ libOpen = FALSE
    /\ stage = "NONE" /\ txd = <<>> /\ undo = EmptyMap
    /\ txAllocs = {} /\ txFrees = {} /\ errno = 0
    /\ build = "unset" /\ alive = TRUE /\ handle = "none"
    /\ trans_stack = <<>> /\ cr = EmptyMap /\ cp = EmptyMap
    /\ tr = EmptyMap /\ tp = EmptyMap /\ type_table = V_None
    /\ track_free = NoTrack /\ g = NewGc /\ ev = <<>>
    /\ scopes = 0 /\ pending = NoExc /\ held = V_None
    /\ last = [act |-> "Init", exc |-> NoExc, flag |-> "", existed |-> FALSE,
               top |-> "", ok0 |-> TRUE, hb |-> "none", v |-> NoView,
               i |-> 0, arg |-> NoView, l0 |-> NoView,
     zs |-> {}, full |-> {}, cyc |-> {}, lists |-> {}, fr |-> {}, fr0 |-> {}]
    /\ ep = NoEp
    /\ ref = NoRef
    /\ lock = NoLock
    /\ pc = [t \in Threads |-> <<>>]

\* pop = PersistentObjectPool(fn, flag) (pmemobj.open is flag 'w',
\* pmemobj.create is flag 'x'), at top level, with no other handle open.
Construct(flag, rev) ==
    /\ alive /\ handle # "open" /\ ~libOpen /\ scopes = 0 /\ pending = NoExc
    /\ \E m \in Run("pool_init", M, <<flag, MaxOid, rev>>) :
       /\ Store(m)
       /\ last' = [DoneBy("Construct", m) EXCEPT
                      !.flag = flag, !.v = IF exists THEN StoredView(M) ELSE NoView,
                      !.zs = IF exists THEN ZeroRefs(M) ELSE {},
                      !.full = IF exists THEN Owners(M) ELSE {}]
       /\ ep' = IF ep.phase = "closed" /\ m.handle = "open"
                THEN [ep EXCEPT !.phase = "reopened"] ELSE Idle
    /\ ref' = Off(ref)
    /\ UNCHANGED <<scopes, pending, held>>

\* pop.close(), at top level with no transaction open; the program drops the
\* list it still holds.
Close(rev) ==
    /\ alive /\ handle \in {"open", "closed"} /\ scopes = 0 /\ pending = NoExc
    /\ trans_stack = <<>> /\ stage = "NONE"
    /\ \E m \in Run("close", M, <<rev>>) :
       /\ Store(m)
       /\ last' = [DoneBy("Close", m) EXCEPT !.zs = ZeroRefs(M), !.full = Owners(M)]
       /\ ep' = IF handle = "open" /\ ep.phase = "ended"
                THEN [ep EXCEPT !.phase = "closed"] ELSE Idle
    /\ held' = V_None
    /\ ref' = [Off(ref) EXCEPT !.heldv = <<>>]
    /\ UNCHANGED <<scopes, pending>>

\* pop.root = v comes after root = x and a pass of the collector, v is
\* another value of the shape of x, and the program holds no list but v.
Replacing(v, x) ==
    ref.ph = 2 /\ Replaces(ref.x, x) /\ held \in {V_None, v}

\* pop.root = v; inside a transaction, once at each level.  x is the value as
\* the program sees it before the assignment.
RootSet(v) ==
    /\ Ready
    /\ IF ep.phase = "open" THEN Len(trans_stack) \notin ep.assignedAt
       ELSE CanOpen
    /\ \E x \in {ValueView(M, v)} : \E m \in Run("root_set", M, <<v>>) :
       /\ Stmt("RootSet", m, x)
       /\ ep' = EpClose(EpEvent(EpOpen({"top"}),
                                IF Raised(m) THEN "err" ELSE "assign", x, 0),
                        m, scopes)
       /\ ref' = IF Raised(m) THEN Off(ref)
                 ELSE [ref EXCEPT !.on = v.t = "plist", !.plain = TRUE,
                                  !.seq = IF v = held THEN ref.heldv ELSE <<>>,
                                  !.heldv = IF v = held THEN <<>> ELSE @,
                                  !.ph = IF Replacing(v, x) THEN 3 ELSE 1,
                                  !.x = IF Replacing(v, x) THEN @ ELSE x,
                                  !.gb = IF Replacing(v, x) THEN @ ELSE NoRef.gb]
    /\ held' = IF v = held THEN V_None ELSE held
    /\ UNCHANGED scopes

\* pop.root (read), between transactions
RootGet ==
    /\ Ready /\ ep.phase # "open"
    /\ \E m \in Run("root_get", M, <<>>) :
       Stmt("RootGet", m, RootView(m))
    /\ ep' = Idle
    /\ UNCHANGED <<scopes, held, ref>>

\* held = pop.new(PersistentList, values), between transactions or inside a
\* `with` block
NewList(values) ==
    /\ Ready /\ held = V_None
    /\ IF scopes = 0 THEN ep.phase # "open" ELSE ep.ops < MaxOps
    /\ \E m \in Run("new_list", M, <<values>>) :
       /\ Stmt("NewList", m, ListView(values))
       /\ held' = IF Raised(m) THEN held ELSE m.val
       /\ ref' = IF Raised(m) THEN Off(ref)
                 ELSE [(IF ref.ph = 2 THEN ref ELSE Off(ref)) EXCEPT
                          !.heldv = ListView(values).e]
    /\ ep' = IF scopes = 0 THEN ep ELSE EpEvent(ep, "new", NoView, 1)
    /\ UNCHANGED scopes

\* `with pop.transaction():` is entered
ScopeEnter ==
    /\ Ready /\ scopes < MaxScopes /\ Len(txd) < MaxTx
    /\ IF ep.phase = "open" THEN TRUE ELSE CanOpen
    /\ \E m \in Run("enter", M, <<>>) :
       /\ Stmt("ScopeEnter", m, NoView)
       /\ scopes' = IF Raised(m) THEN scopes ELSE scopes + 1
       /\ ep' = EpEvent(EpOpen({}), IF Raised(m) THEN "err" ELSE "scope", NoView, 0)
    /\ UNCHANGED <<held, ref>>

\* The innermost `with` block is left: by reaching its end, or by the
\* exception that is propagating.  __exit__ returns None, so the exception
\* goes on unless __exit__ raises another one.
ScopeExit ==
    /\ alive /\ scopes > 0
    /\ \E m \in Run("exit", [M EXCEPT !.exc = pending], <<>>) :
       /\ Store(m)
       /\ pending' = IF m.alive /\ scopes > 1 THEN m.exc ELSE NoExc
       /\ last' = DoneBy("ScopeExit", m)
       /\ ep' = EpClose(ep, m, scopes - 1)
    /\ scopes' = scopes - 1
    /\ UNCHANGED <<held, ref>>

\* `raise Exception('boo')` inside a `with` block
UserRaise ==
    /\ Ready /\ scopes > 0 /\ ep.ops < MaxOps
    /\ Store(M)
    /\ pending' = "HostError"
    /\ last' = LastOf("UserRaise", "HostError")
    /\ ep' = EpEvent(ep, "raise", NoView, 1)
    /\ UNCHANGED <<scopes, held, ref>>

\* trans.begin()
Begin ==
    /\ Ready /\ InBudget /\ Len(txd) < MaxTx /\ NumFree < MaxFree
    /\ \E m \in Run("begin", M, <<>>) :
       /\ Stmt("Begin", m, NoView)
       /\ ep' = EpClose(EpEvent(EpOpen({}), IF Raised(m) THEN "err" ELSE "begin", NoView, 1),
                        m, scopes)
    /\ UNCHANGED <<scopes, held, ref>>

\* trans.commit()
Commit ==
    /\ Ready /\ (ep.phase = "open" => ep.ops < MaxOps)
    /\ trans_stack = <<>> \/ ep.phase = "open"
    /\ \E m \in Run("commit", M, <<>>) :
       /\ Stmt("Commit", m, NoView)
       /\ ep' = IF ep.phase # "open" THEN Idle
                ELSE EpClose(EpEvent(ep, IF Raised(m) THEN "commitErr" ELSE "commit",
                                     NoView, 1), m, scopes)
    /\ UNCHANGED <<scopes, held, ref>>

\* trans.abort(errnum)
Abort(errnum) ==
    /\ Ready /\ (ep.phase = "open" => ep.ops < MaxOps)
    /\ trans_stack = <<>> \/ ep.phase = "open"
    /\ \E m \in Run("abort", M, <<errnum>>) :
       /\ Stmt("Abort", m, NoView)
       /\ ep' = IF ep.phase # "open" THEN Idle
                ELSE EpClose(EpEvent(ep,
                                     IF trans_stack = <<>> THEN "err"
                                     ELSE IF errnum = ECANCELED THEN "abortC" ELSE "abortV",
                                     NoView, 1), m, scopes)
    /\ UNCHANGED <<scopes, held, ref>>

\* A program that uses transactions and assigns immutable roots.
Next ==
    \/ \E flag \in Flags, rev \in BOOLEAN : Construct(flag, rev)
    \/ \E rev \in BOOLEAN : Close(rev)
    \/ \E v \in TxValues : RootSet(v)
    \/ RootGet
    \/ ScopeEnter
    \/ ScopeExit
    \/ UserRaise
    \/ Begin
    \/ Commit
    \/ \E errnum \in {ECANCELED, EINVAL} : Abort(errnum)
Spec == Init /\ [][Next]_vars

\* Lists made inside transactions.
TxLists == {<<>>, <<V_Int(5)>>}

\* A program that makes lists and assigns the root inside scoped
\* transactions, which end normally, by an exception or by abort().
NextTxList ==
    \/ Construct("c", FALSE)
    \/ scopes < MaxListScopes /\ ScopeEnter
    \/ ScopeExit
    \/ UserRaise
    \/ Abort(ECANCELED)
    \/ \E values \in TxLists : NewList(values)
    \/ \E v \in {V_Int(10)} \cup ({held} \ {V_None}) : RootSet(v)
SpecTxList == Init /\ [][NextTxList]_vars

\* A program without transactions of its own: it creates, fills, closes and
\* reopens pools.
NextRound ==
    \/ \E flag \in Flags, rev \in BOOLEAN : Construct(flag, rev)
    \/ \E rev \in BOOLEAN : Close(rev)
    \/ \E v \in RoundValues \cup ({held} \ {V_None}) : RootSet(v)
    \/ \E values \in ListValues : NewList(values)
    \/ RootGet
SpecRound == Init /\ [][NextRound]_vars

\* The statement deletes a slot of s that holds None, or stores a value
\* (other than None) that is an element of s already.
NotPlain(act, s, i, arg) ==
    \/ act = "ListDel" /\ py_index_ok(s, i) /\ s[py_pos(s, i) + 1] = ImmView(V_None)
    \/ /\ act \in {"ListSet", "ListInsert", "ListAppend"}
       /\ arg # ImmView(V_None) /\ \E k \in 1..Len(s) : s[k] = arg

\* A statement on the list stored at root, between transactions: f is the
\* method, a its arguments, i the index and arg the value among them, seq
\* the reference list after the same statement.
ListStmt(act, f, a, i, arg, seq) ==
    /\ Ready /\ scopes = 0 /\ ep.phase # "open" /\ stage = "NONE"
    /\ ref.on /\ ref.n < MaxListOps
    /\ \E m \in Run("root_call", M, <<f, a>>) :
       /\ Store(m)
       /\ last' = [DoneBy(act, m) EXCEPT
                      !.v = IF f = "getitem" THEN ResultView(m) ELSE NoView,
                      !.i = i, !.arg = arg, !.l0 = View(M)]
    /\ pending' = NoExc
    /\ ref' = [Off(ref) EXCEPT !.seq = seq, !.n = @ + 1,
                          !.plain = @ /\ ~NotPlain(act, ref.seq, i, arg)]
    /\ ep' = Idle
    /\ UNCHANGED <<scopes, held>>

\* pop.root.insert(i, v)
ListInsert(i, v) ==
    ListStmt("ListInsert", "insert", <<i, v>>, i, ImmView(v), py_insert(ref.seq, i, ImmView(v)))
\* pop.root.append(v)
ListAppend(v) ==
    ListStmt("ListAppend", "append", <<v>>, 0, ImmView(v), Append(ref.seq, ImmView(v)))
\* pop.root[i] = v
ListSet(i, v) ==
    ListStmt("ListSet", "setitem", <<i, v>>, i, ImmView(v), py_setitem(ref.seq, i, ImmView(v)))
\* del pop.root[i]
ListDel(i) ==
    ListStmt("ListDel", "delitem", <<i>>, i, NoView, py_delitem(ref.seq, i))
\* pop.root[i]
ListGet(i) ==
    ListStmt("ListGet", "getitem", <<i>>, i, NoView, ref.seq)
\* pop.root.clear()
ListClear ==
    ListStmt("ListClear", "clear", <<>>, 0, NoView, <<>>)

\* The lists of a pool, and those among them that are not the root and whose
\* one reference comes from a list of the same kind that they reference in
\* turn.
ListObjs(m) == {off \in Offs : m.heap[off].kind = "obj" /\ m.heap[off].type = 0}
Elems(m, off) ==
    IF m.heap[off].items = OID_NULL THEN <<>>
    ELSE SubSeq(m.heap[m.heap[off].items[2]].slots, 1, m.heap[off].size)
Cycles(m) ==
    {a \in ListObjs(m) :
        /\ m.heap[a].refcnt = 1 /\ Oid(a) \notin {m.proot.root_object, m.proot.type_table}
        /\ \E b \in ListObjs(m) \ {a} :
              /\ m.heap[b].refcnt = 1
              /\ Oid(b) \notin {m.proot.root_object, m.proot.type_table}
              /\ Elems(m, a) = <<Oid(b)>> /\ Elems(m, b) = <<Oid(a)>>}

\* A statement of a program that collects, between transactions: the call
\* f(*a); r is the history after it.
GcStmt(act, f, a) ==
    /\ Ready /\ scopes = 0 /\ ep.phase # "open" /\ stage = "NONE"
    /\ act \notin {"Gc", "GcAgain"} => ref.n < MaxGcOps
    /\ \E m \in Run(f, M, a) :
       /\ Store(m)
       /\ last' = [DoneBy(act, m) EXCEPT
                      !.zs = ZeroRefs(M), !.full = Owners(M), !.cyc = Cycles(M),
                      !.lists = ListObjs(M),
                      !.fr0 = IF act = "GcAgain" THEN last.fr ELSE {}]
       /\ held' = IF act \in {"Gc", "GcAgain"} \/ (act = "AppendHeld" /\ ~Raised(m))
                  THEN V_None ELSE held
       /\ ref' = IF act = "Gc" /\ (ref.ph = 3 \/ (ref.ph = 1 /\ ~Raised(m)))
                 THEN [ref EXCEPT !.ph = @ + 1, !.heldv = <<>>,
                                  !.gb = IF ref.ph = 1
                                         THEN [types |-> m.g.types, counts |-> m.g.counts]
                                         ELSE @]
                 ELSE [Off(ref) EXCEPT
                          !.heldv = IF act \in {"Gc", "GcAgain"} THEN <<>> ELSE @,
                          !.n = IF act \in {"Gc", "GcAgain"} THEN @ ELSE @ + 1]
    /\ pending' = NoExc
    /\ ep' = Idle
    /\ UNCHANGED scopes

\* The elements (OIDs) of the list at root; none when the root is no list.
RootElems ==
    IF ref.on /\ proot.root_object # OID_NULL /\ RootValid(M)
       /\ heap[proot.root_object[2]].type = 0
    THEN Elems(M, proot.root_object[2]) ELSE <<>>
\* Element k of the list at root is an empty list.
EmptyAt(k) ==
    /\ k < Len(RootElems) /\ RootElems[k + 1] # OID_NULL
    /\ heap[RootElems[k + 1][2]].kind = "obj" /\ heap[RootElems[k + 1][2]].type = 0
    /\ heap[RootElems[k + 1][2]].size = 0

\* pop.gc(); the program holds no unlinked list across it.
Gc(rev) == last.act \notin {"Gc", "GcAgain"} /\ GcStmt("Gc", "gc", <<rev>>)
\* pop.gc() once more, right after a pop.gc() that returned
GcAgain(rev) ==
    /\ last.act = "Gc" /\ last.exc = NoExc
    /\ GcStmt("GcAgain", "gc", <<rev>>)
\* pop.root.append(lst), lst the empty list the program holds; the root gets
\* two elements at most.
AppendHeld ==
    /\ held # V_None /\ ref.on /\ ref.heldv = <<>> /\ Len(RootElems) < 2
    /\ GcStmt("AppendHeld", "root_call", <<"append", <<held>>>>)
\* pop.root[k].append(pop.root[j]), for a root of two lists, root[k] empty
NestAppend(k, j) ==
    /\ ref.on /\ k # j /\ Len(RootElems) = 2 /\ EmptyAt(k)
    /\ GcStmt("NestAppend", "nest_append", <<k, j>>)
\* pop.root.clear(), for a root that has elements
RootClear == ref.on /\ Len(RootElems) > 0 /\ GcStmt("RootClear", "root_call", <<"clear", <<>>>>)

\* The process ends between two statements without closing the pool: what it
\* held in memory is lost, the pool file stays as it is.
Crash ==
    /\ alive /\ handle = "open" /\ scopes = 0 /\ pending = NoExc
    /\ stage = "NONE" /\ trans_stack = <<>>
    /\ Store([cache_clear(M) EXCEPT !.handle = "none", !.libOpen = FALSE,
                                    !.type_table = V_None])
    /\ last' = [LastOf("Crash", NoExc) EXCEPT !.zs = ZeroRefs(M), !.full = Owners(M)]
    /\ held' = V_None
    /\ ref' = [Off(ref) EXCEPT !.heldv = <<>>]
    /\ ep' = Idle
    /\ UNCHANGED <<scopes, pending>>

\* The process ends inside pmemobj.create, after pmemobj_create has made the
\* pool file and before the transaction that stores the type table has
\* committed.
CreateCrash(point) ==
    /\ alive /\ handle = "none" /\ ~exists /\ ~libOpen
    /\ \E m \in Run("create_stopped", M, <<point>>) :
       /\ Store(m)
       /\ last' = [LastOf("CreateCrash", NoExc) EXCEPT !.i = point]
    /\ ref' = Off(ref)
    /\ ep' = Idle
    /\ UNCHANGED <<scopes, pending, held>>

\* Values of the program of SpecGc: the roots and the lists of the tests of
\* the collector, and an instance of a class without codec.
GcValues == {V_Int(12), V_Int(15), V_Foo}
GcLists == {<<>>, <<V_Int(1), V_Int(2)>>, <<V_Int(3), V_Int(4)>>}

\* A program that replaces the root, leaves lists unlinked and collects.
NextGc ==
    \/ Construct("c", FALSE)
    \/ \E values \in GcLists : NewList(values)
    \/ \E v \in GcValues \cup ({held} \ {V_None}) : RootSet(v)
    \/ \E rev \in BOOLEAN : Gc(rev)
    \/ \E rev \in BOOLEAN : GcAgain(rev)
SpecGc == Init /\ [][NextGc]_vars

\* A program that builds a root list of lists, lets them reference each
\* other, clears the root and collects.
NextCycle ==
    \/ Construct("c", FALSE)
    \/ NewList(<<>>)
    \/ held # V_None /\ RootSet(held)
    \/ AppendHeld
    \/ \E k, j \in {0, 1} : NestAppend(k, j)
    \/ RootClear
    \/ \E rev \in BOOLEAN : Gc(rev)
SpecCycle == Init /\ [][NextCycle]_vars

\* Lists whose element is the value the program stores at root.
ShareLists == {<<>>, <<V_Int(12)>>}
\* lst.append(lst), lst the unlinked list the program holds: lst references
\* itself and has refcount 1.
SelfAppend ==
    /\ held # V_None /\ heap[held.o[2]].kind = "obj" /\ heap[held.o[2]].size < 2
    /\ GcStmt("SelfAppend", "append", <<held, held>>)

\* A program that assigns the root once and whose unlinked lists, orphans and
\* self-referencing ones, share their element with the root or with the list
\* at root, and that collects.
NextShare ==
    \/ Construct("c", FALSE)
    \/ \E values \in ShareLists : NewList(values)
    \/ proot.root_object = OID_NULL
       /\ \E v \in {V_Int(12)} \cup ({held} \ {V_None}) : RootSet(v)
    \/ SelfAppend
    \/ \E rev \in BOOLEAN : Gc(rev)
SpecShare == Init /\ [][NextShare]_vars

\* A program whose process may end without closing the pool, and that opens
\* the pool again.
NextCrash ==
    \/ \E flag \in {"c", "w"}, rev \in BOOLEAN : Construct(flag, rev)
    \/ \E rev \in BOOLEAN : Close(rev)
    \/ Crash
    \/ \E point \in CreatePoints : CreateCrash(point)
    \/ \E values \in GcLists : NewList(values)
    \/ \E v \in {V_Int(12)} \cup ({held} \ {V_None}) : RootSet(v)
SpecCrash == Init /\ [][NextCrash]_vars

\* Values and indices of the list statements.
ElemValues == {V_None, V_Int(5), V_Str(<<97>>)}
Indices == (0 - MaxIndex)..MaxIndex

\* A program that fills a list, stores it at root and works on it, closing
\* and reopening the pool in between.
NextList ==
    \/ Construct("c", FALSE)
    \/ Close(FALSE)
    \/ ~ref.on /\ \E values \in ListValues : NewList(values)
    \/ held # V_None /\ RootSet(held)
    \/ \E i \in Indices, v \in ElemValues : ListInsert(i, v)
    \/ \E v \in ElemValues : ListAppend(v)
    \/ \E i \in Indices, v \in ElemValues : ListSet(i, v)
    \/ \E i \in Indices : ListDel(i)
    \/ \E i \in Indices : ListGet(i)
    \/ ListClear
SpecList == Init /\ [][NextList]_vars

\* The kinds of an episode that are list statements inside it.
ListKinds == {"insert", "append", "setitem", "delitem", "clear"}
\* The record of the list statements of the open episode.
TxNow == IF ref.tx.ep = ep.count THEN ref.tx ELSE [ep |-> ep.count, n |-> 0, heap |-> heap]
\* pop.root.f(*a) inside a `with pop.transaction():` block
ScopedStmt(act, f, a) ==
    /\ Ready /\ scopes > 0 /\ ep.phase = "open" /\ ref.on /\ TxNow.n < MaxScopedOps
    /\ \E m \in Run("root_call", M, <<f, a>>) :
       /\ Stmt(act, m, NoView)
       /\ ep' = EpEvent(ep, IF Raised(m) THEN "err" ELSE f, NoView, 0)
    /\ ref' = [ref EXCEPT !.tx = [TxNow EXCEPT !.n = @ + 1]]
    /\ UNCHANGED <<scopes, held>>
\* pop.root.append(lst) between transactions, lst the list the program holds
AppendList ==
    /\ held # V_None /\ ref.on /\ ref.heldv # <<>> /\ Len(RootElems) < 3
    /\ GcStmt("AppendHeld", "root_call", <<"append", <<held>>>>)

\* Lists, values and indices of the statements inside scoped transactions.
ScopedLists == {<<V_Int(5), V_Str(<<97>>)>>, <<V_Int(7)>>}
ScopedValues == {V_Int(9)}
ScopedIndices == {0, 2}

\* A program that stores a list (of two immutables, or of one, and a list
\* among them) at root and works on it inside scoped transactions, which end
\* normally, by an exception or by abort().
NextScoped ==
    \/ Construct("c", FALSE)
    \/ scopes = 0 /\ \E values \in ScopedLists : NewList(values)
    \/ scopes = 0 /\ ~ref.on /\ held # V_None /\ RootSet(held)
    \/ AppendList
    \/ scopes < MaxListScopes /\ ScopeEnter
    \/ ScopeExit
    \/ UserRaise
    \/ Abort(ECANCELED)
    \/ \E i \in ScopedIndices, v \in ScopedValues : ScopedStmt("ListInsert", "insert", <<i, v>>)
    \/ \E v \in ScopedValues : ScopedStmt("ListAppend", "append", <<v>>)
    \/ \E i \in ScopedIndices, v \in ScopedValues : ScopedStmt("ListSet", "setitem", <<i, v>>)
    \/ \E i \in ScopedIndices : ScopedStmt("ListDel", "delitem", <<i>>)
    \/ ScopedStmt("ListClear", "clear", <<>>)
SpecScoped == Init /\ [][NextScoped]_vars

\* ----------------------------------------------------------------- threads
\* Threads that share one pool handle.  pc[t] is the stack of the calls thread
\* t is in, innermost last; <<>> between two operations.  The specification
\* follows the lock and the positions of the threads; what the operations do
\* to the pool is the subject of the other specifications.
\*   "root"                       PersistentObjectPool.root (getter)
\*   "getitem" ... "clear"        the methods of PersistentList
\*   "root=" "enter" "body" "exit"   the setter of root: the log.debug call
\*                                that reads self.root, the transaction
\*                                entered, the lock held, the lock released
\*   "gc:catalog" ... "gc:other"  the phases of gc
\*   "close", "close:end"         close before and after its self.gc()
ListReads == {"getitem"}
ListWrites == {"insert", "setitem", "delitem", "clear"}
GcPhases == <<"gc:catalog", "gc:orphans", "gc:trace", "gc:containers", "gc:other">>
GcPos == {GcPhases[k] : k \in 1..Len(GcPhases)}
SetPos == {"root=", "enter", "body", "exit"}
At(t) == IF pc[t] = <<>> THEN "" ELSE Top(pc[t])
Opened == alive /\ handle = "open"
\* RLock.acquire by t (it blocks while another thread owns the lock), and
\* RLock.release
CanAcquire(t) == lock.owner \in {0, t}
Acquired(t) == [owner |-> t, count |-> lock.count + 1]
Released == IF lock.count = 1 THEN NoLock ELSE [lock EXCEPT !.count = @ - 1]
Goto(t, stack, l) == pc' = [pc EXCEPT ![t] = stack] /\ lock' = l /\ UNCHANGED poolVars

\* pop.root: resurrect(self._pmem_root.root_object), no lock taken
T_RootGet(t) == Opened /\ At(t) = "" /\ Goto(t, <<"root">>, lock)
\* a method of the PersistentList at root is called: no lock taken
T_List(t, f) == Opened /\ At(t) = "" /\ Goto(t, <<f>>, lock)
\* the getter or the list method returns
T_Return(t) ==
    At(t) \in {"root"} \cup ListReads \cup ListWrites /\ Goto(t, Pop(pc[t]), lock)
\* pop.root = v: log.debug reads self.root, then
\* `with self.mm.transaction(), self.lock:` enters the transaction, acquires
\* the lock, runs the body, releases the lock and leaves the transaction.
T_RootSet(t) == Opened /\ At(t) = "" /\ Goto(t, <<"root=">>, lock)
T_SetEnter(t) == At(t) = "root=" /\ Goto(t, <<"enter">>, lock)
T_SetLock(t) == At(t) = "enter" /\ CanAcquire(t) /\ Goto(t, <<"body">>, Acquired(t))
T_SetUnlock(t) == At(t) = "body" /\ Goto(t, <<"exit">>, Released)
T_SetExit(t) == At(t) = "exit" /\ Goto(t, <<>>, lock)
\* pop.gc(), called by the program or by close: `with self.lock:` around all
\* of its phases
T_Gc(t) ==
    /\ Opened /\ At(t) \in {"", "close"} /\ CanAcquire(t)
    /\ Goto(t, (IF At(t) = "close" THEN <<"close:end">> ELSE <<>>) \o <<GcPhases[1]>>,
            Acquired(t))
T_GcPhase(t) ==
    \E k \in 1..(Len(GcPhases) - 1) :
        At(t) = GcPhases[k] /\ Goto(t, Pop(pc[t]) \o <<GcPhases[k + 1]>>, lock)
T_GcEnd(t) == At(t) = GcPhases[Len(GcPhases)] /\ Goto(t, Pop(pc[t]), Released)
\* pop.close(): `with self.lock:` around self.gc() and pmemobj_close
T_Close(t) == Opened /\ At(t) = "" /\ CanAcquire(t) /\ Goto(t, <<"close">>, Acquired(t))
T_CloseEnd(t) == At(t) = "close:end" /\ Goto(t, <<>>, Released)

\* A program whose threads use one pool handle.
NextThreads ==
    \/ Construct("c", FALSE)
    \/ \E t \in Threads : T_RootGet(t)
    \/ \E t \in Threads, f \in ListReads \cup ListWrites : T_List(t, f)
    \/ \E t \in Threads : T_Return(t)
    \/ \E t \in Threads : T_RootSet(t)
    \/ \E t \in Threads : T_SetEnter(t)
    \/ \E t \in Threads : T_SetLock(t)
    \/ \E t \in Threads : T_SetUnlock(t)
    \/ \E t \in Threads : T_SetExit(t)
    \/ \E t \in Threads : T_Gc(t)
    \/ \E t \in Threads : T_GcPhase(t)
    \/ \E t \in Threads : T_GcEnd(t)
    \/ \E t \in Threads : T_Close(t)
    \/ \E t \in Threads : T_CloseEnd(t)
SpecThreads == Init /\ [][NextThreads]_vars

\* ------------------------------------------------------------- properties
\* The machines the process may be: one for each build it may still run on.
Machines == IF build = "unset" THEN {M, [M EXCEPT !.libDebug = TRUE]} ELSE {M}
\* `with pop.transaction(): pop.root = v`, run from m, raises nothing and
\* leaves no transaction open.
TxDone(r) ==
    r.alive /\ ~Raised(r) /\ r.trans_stack = <<>> /\ r.stage = "NONE" /\ r.txd = <<>>
TxRuns(m, v) == TxDone(With(m, LAMBDA x : call("root_set", x, <<v>>)))
\* A further scoped transaction that assigns the root succeeds.
NextTxOk == \A m \in Machines, v \in TxValues : TxRuns(m, v)
\* The outermost transaction is over; the root it found is the root again and
\* the transaction stack is empty.
RolledBack == View(M) = ep.rootBefore /\ trans_stack = <<>>

\* C1: a host exception raised inside scoped transactions after a root
\* assignment propagates out of the outermost scope unchanged; the root read
\* after it is the root before it, the transaction stack is empty, and a
\* further scoped transaction that assigns the root succeeds.
C1_Case == ep.phase = "ended" /\ ep.kinds = {"scope", "assign", "raise"}
C2_Case ==
    /\ ep.phase = "ended" /\ ep.kinds = {"scope", "assign", "abortC"}
    /\ ep.at = 3 /\ ep.assignedAt = {1, 2, 3}
C3_Case ==
    /\ ep.phase \in {"ended", "reopened"}
    /\ ep.kinds \in {{"scope", "assign"}, {"begin", "assign", "commit"}}
C3_CommitKeepsRoot ==
    C3_Case => /\ ep.phase = "ended" => last.exc = NoExc
               /\ View(M) = ep.lastv
\* C3, for an assignment of another value than the root already holds.
C3_CommitKeepsNewRoot ==
    (C3_Case /\ ep.lastv # ep.rootBefore)
        => /\ ep.phase = "ended" => last.exc = NoExc
           /\ View(M) = ep.lastv

\* C4: abort(ECANCELED) after a root assignment in a transaction opened by
\* begin() or by a single scoped context raises OSError, from abort() or from
\* the scope exit; the root is the one before the transaction, right away
\* and after close and open, and a further transaction can run.
C4_Case ==
    /\ ep.phase \in {"ended", "reopened"}
    /\ \/ ep.kinds = {"begin", "assign", "abortC"} /\ ep.at = 0
       \/ ep.kinds = {"scope", "assign", "abortC"} /\ ep.at = 1
C5_MisuseOutsideTransaction ==
    [][(trans_stack = <<>> /\ last'.act \in {"Commit", "Abort"})
        => /\ last'.exc = "RuntimeError" /\ trans_stack' = <<>>
           /\ UNCHANGED <<heap, proot, exists, stage, txd, undo, txAllocs, txFrees,
                          cr, cp, tr, tp, alive, handle>>]_vars
C5_Witness ==
    /\ last.act \in {"Commit", "Abort"} /\ last.top = "" /\ last.exc = "RuntimeError"
    /\ View(M) = ImmView(V_Int(10))

\* C6: commit() while the top frame of the transaction stack is scope-owned
\* raises RuntimeError, and every enclosing scoped transaction is aborted:
\* RuntimeError leaves the outermost scope, the root is the one before that
\* scope and a later scoped transaction succeeds.
C6_Case == ep.phase = "ended" /\ ep.kinds = {"scope", "assign", "commitErr"}
C7_Case ==
    /\ ep.phase = "ended" /\ ep.kinds = {"scope", "assign", "begin"}
    /\ ep.rootBefore # ep.lastv
C7_OpenBeginAtScopeExit ==
    C7_Case => /\ last.act = "ScopeExit" /\ last.exc = "RuntimeError"
               /\ RolledBack /\ stage = "NONE" /\ txd = <<>> /\ NextTxOk

\* C8: for every value v among integers, strings, None and lists of these:
\* after create, root = v, close, open, the root read back equals v, and so
\* does the root read right after the assignment.
C8_Case ==
    /\ ep.phase \in {"ended", "reopened"} /\ ep.kinds = {"top", "assign"}
    /\ ep.rootBefore = ImmView(V_None)
C8_RoundTrip == C8_Case => View(M) = ep.lastv

\* C9: the first close runs one GC pass and then closes the underlying pool;
\* every later close on the same handle raises nothing and runs neither a GC
\* pass nor a second library close.
C9_CloseIdempotent ==
    last.act = "Close" =>
        /\ last.hb = "open" =>
               /\ last.exc = NoExc /\ ev = <<"gc", "pmemobj_close">>
               /\ handle = "closed" /\ ~libOpen
        /\ last.hb = "closed" =>
               /\ last.exc = NoExc /\ ev = <<>>
               /\ handle = "closed" /\ ~libOpen

\* C10: flag 'w' on a missing file fails; flag 'x' on an existing file fails;
\* flag 'c' creates the pool when the file is missing and opens the existing
\* pool, keeping its stored root, when it exists; flag 'r' and any unknown
\* flag fail with ValueError.
C10_FlagMatrix ==
    last.act = "Construct" =>
        /\ (last.flag = "w" /\ ~last.existed) =>
               last.exc = "OSError" /\ handle # "open" /\ ~exists
        /\ (last.flag = "x" /\ last.existed) =>
               last.exc = "OSError" /\ handle # "open"
        /\ (last.flag = "c" /\ ~last.existed) =>
               /\ last.exc = NoExc /\ handle = "open" /\ exists
               /\ View(M) = ImmView(V_None)
        /\ (last.flag = "c" /\ last.existed) =>
               last.exc = NoExc /\ handle = "open" /\ View(M) = last.v
        /\ last.flag \in {"r", "q"} =>
               last.exc = "ValueError" /\ handle # "open" /\ exists = last.existed
C10_Witness ==
    /\ last.act = "Construct" /\ last.flag = "c" /\ last.existed
    /\ handle = "open" /\ View(M) = ImmView(V_Str(<<97, 337>>))

\* The list statement found a readable list at root: every element of it
\* could be read.
ListBefore ==
    /\ last.l0.t = "list"
    /\ \A k \in 1..Len(last.l0.e) : last.l0.e[k].t # "error"
\* The list at root now, as the list statement left it.
ListNow == View(M)
\* No slot of the list before the statement held None, and the value the
\* statement stores is not already an element.
C11_NoNoneNoRepeat ==
    /\ \A k \in 1..Len(last.l0.e) : last.l0.e[k] # ImmView(V_None)
    /\ \A k \in 1..Len(last.l0.e) : last.l0.e[k] # last.arg
C11_Expected ==
    LET s == last.l0.e
        i == last.i
    IN IF py_index_ok(s, i)
       THEN /\ last.exc = NoExc
            /\ last.act = "ListGet" => last.v = s[py_pos(s, i) + 1] /\ ListNow = last.l0
            /\ last.act = "ListSet" => ListNow.t = "list" /\ ListNow.e = py_setitem(s, i, last.arg)
            /\ last.act = "ListDel" => ListNow.t = "list" /\ ListNow.e = py_delitem(s, i)
       ELSE last.exc = "IndexError" /\ ListNow = last.l0

\* C11: for every list L and integer i, L[i], L[i] = v and del L[i] act on
\* position i (a negative i counted from the end) when -len(L) <= i < len(L);
\* otherwise each raises IndexError and leaves the list unchanged.
C11_IndexedAccess ==
    (last.act \in {"ListGet", "ListSet", "ListDel"} /\ ListBefore) => C11_Expected
\* The same for lists without None where the stored value is a new one.
C11_IndexedAccessPlain ==
    (last.act \in {"ListGet", "ListSet", "ListDel"} /\ ListBefore /\ C11_NoNoneNoRepeat)
        => C11_Expected

\* C12: L.insert(i, v) yields the sequence of the reference insert for every
\* integer i and value v: a negative i is counted from the end, the index is
\* clamped to [0, len], the suffix moves right by one and the length grows by
\* one; L.append(v) is L.insert(len(L), v).
C12_InsertAsReference ==
    /\ (last.act = "ListInsert" /\ ListBefore)
          => /\ last.exc = NoExc /\ ListNow.t = "list"
             /\ ListNow.e = py_insert(last.l0.e, last.i, last.arg)
             /\ Len(ListNow.e) = Len(last.l0.e) + 1
    /\ (last.act = "ListAppend" /\ ListBefore)
          => /\ last.exc = NoExc /\ ListNow.t = "list"
             /\ ListNow.e = py_insert(last.l0.e, Len(last.l0.e), last.arg)
\* The second statement of a run is an insert of None at an index below -len
\* into a list of two: None is the first of three.
C12_Witness ==
    /\ last.act = "ListInsert" /\ last.i < 0 - Len(last.l0.e) /\ Len(last.l0.e) = 2
    /\ last.existed /\ ref.n = 2
    /\ ListNow.e = <<last.arg>> \o last.l0.e
    /\ last.arg = ImmView(V_None)

\* C13: after any sequence of insert, item assignment, del, clear and append
\* on the list stored at root, with close and open anywhere in between, the
\* list read from root equals the reference list that went through the same
\* statements; the list is usable after clear.
C13_EqualsReference ==
    (ref.on /\ alive /\ handle = "open") => ListNow = [ListView(<<>>) EXCEPT !.e = ref.seq]
\* The same while no statement has deleted a slot that holds None or stored a
\* value that was an element already.
C13_EqualsReferencePlain ==
    (ref.on /\ ref.plain /\ handle = "open") => alive /\ ListNow = [ListView(<<>>) EXCEPT !.e = ref.seq]

\* C14: for every list L whose elements are any persistable values, None
\* among them, and every valid index i, del L[i] succeeds, removes the
\* element at position i, moves the suffix left by one and leaves len(L) one
\* smaller.
C14_DeleteAnyElement ==
    (last.act = "ListDel" /\ ListBefore /\ py_index_ok(last.l0.e, last.i))
        => /\ last.exc = NoExc /\ ListNow.t = "list"
           /\ ListNow.e = py_delitem(last.l0.e, last.i)
           /\ Len(ListNow.e) = Len(last.l0.e) - 1
\* The same for the deletion of an element other than None.
C14_DeleteStored ==
    (/\ last.act = "ListDel" /\ ListBefore /\ py_index_ok(last.l0.e, last.i)
     /\ last.l0.e[py_pos(last.l0.e, last.i) + 1] # ImmView(V_None))
        => /\ last.exc = NoExc /\ ListNow.t = "list"
           /\ ListNow.e = py_delitem(last.l0.e, last.i)

\* What a pass reports as collected: the sum of its '-gced' counters.
Collected(c) == c.orphans0_gced + c.orphans1_gced + c.collections_gced + c.other_gced
\* The program did root = x, gc(), root = y, gc(), with y made in between
\* when it is a list, x and y distinct values of the same shape, and the
\* pass before the replacement found nothing to collect.
C15_Case == ref.ph = 4 /\ Collected(ref.gb.counts) = 0

C16_Case == last.act = "Gc" /\ Cardinality(last.cyc) = 2

\* C16: two lists that reference each other and have been detached from the
\* root are reclaimed by the next gc(): the pass succeeds, its type counts
\* hold every list that was allocated before it (the two included), it
\* reports collections-gced = 2, and afterwards neither list is allocated.
C16_CycleCollected ==
    C16_Case => /\ alive /\ last.exc = NoExc
                /\ last.cyc \subseteq last.lists
                /\ g.types[CLS_LIST] = Cardinality(last.lists)
                /\ g.counts.collections_gced = 2
                /\ \A a \in last.cyc : heap[a].kind = "free"
\* The program of the test: a root list, two lists appended to it, each
\* appended to the other, root.clear(), gc(): four lists counted.
C16_Witness ==
    /\ C16_Case /\ ref.n = MaxGcOps /\ View(M) = ListView(<<>>)
    /\ g.types[CLS_LIST] = 4 /\ g.counts.collections_gced = 2

\* A pass of the collector has run on a pool that held allocations with
\* refcount 0: lists made by new() and linked nowhere.
C17_Case == last.act = "Gc" /\ last.zs # {}
\* The pass succeeded, counted the refcount-0 allocations and freed them.
C17_Swept ==
    /\ alive /\ last.exc = NoExc
    /\ g.counts.orphans0_gced = Cardinality(last.zs)
    /\ \A a \in last.zs : heap[a].kind = "free"

\* C17: a persistent list created with new() and linked nowhere has refcount
\* 0; the next gc() reports orphans0-gced equal to the number of refcount-0
\* allocations and frees them.
C17_OrphanCollected == C17_Case => C17_Swept
\* The root slot named a live object that was none of the refcount-0
\* allocations (a pass leaves the slot as it is).
RootLinked ==
    /\ last.ok0
    /\ proot.root_object = OID_NULL \/ proot.root_object[2] \notin last.zs
\* C17, for unlinked lists without elements in a pool whose root slot is
\* sound.
C17_EmptyOrphanCollected ==
    (C17_Case /\ last.full = {} /\ RootLinked) => C17_Swept
\* The program of the test: new(PersistentList); gc() reports one orphan.
C17_EmptyOrphan ==
    C17_Case /\ last.full = {} /\ g.counts.orphans0_gced = 1 /\ View(M) = ImmView(V_None)

C19_IncompletePoolRejected ==
    [][(exists /\ proot.type_table = OID_NULL /\ last'.act = "Construct")
        => /\ last'.exc # NoExc /\ handle' # "open"
           /\ UNCHANGED <<heap, proot>>]_vars

\* An existing pool has been opened; the pool has been closed through an
\* open handle.
C20_Opened == last.act = "Construct" /\ last.existed /\ last.flag \in {"c", "w"}
C20_Closed == last.act = "Close" /\ last.hb = "open"
\* The open ran one pass of the collector and returned the handle, and what
\* had refcount 0 in the file is free; the close ran one pass and then the
\* library's close.
C20_OpenSwept ==
    /\ alive /\ last.exc = NoExc /\ handle = "open" /\ ev = <<"gc">>
    /\ \A a \in last.zs : heap[a].kind = "free"
C20_CloseSwept ==
    /\ alive /\ last.exc = NoExc /\ handle = "closed" /\ ev = <<"gc", "pmemobj_close">>
    /\ \A a \in last.zs : heap[a].kind = "free"

\* C20: opening an existing pool runs a complete GC pass before the handle is
\* returned, so every refcount-0 allocation left by a process that ended
\* between allocate and link is freed before the first user operation; close
\* runs a GC pass before it asks the library to close the pool.
C20_SweepAtOpenAndClose ==
    /\ C20_Opened => C20_OpenSwept
    /\ C20_Closed => C20_CloseSwept
\* C20, for pools with a sound root slot in which the lists with refcount 0
\* have no elements.
C20_SweepOfEmptyOrphans ==
    (last.full = {} /\ RootLinked)
        => /\ C20_Opened => C20_OpenSwept
           /\ C20_Closed => C20_CloseSwept
\* A process ended holding an unlinked empty list; the next open freed it.
C20_CrashOrphanSwept ==
    C20_Opened /\ Cardinality(last.zs) = 1 /\ last.full = {} /\ C20_OpenSwept

\* The statement just run committed the outermost transaction: the stack was
\* not empty, is empty now, and nothing was raised.
C21_Committed ==
    /\ last'.act \in {"Commit", "ScopeExit"} /\ last'.exc = NoExc
    /\ trans_stack # <<>> /\ trans_stack' = <<>>
\* The statement just run aborted a transaction: abort() inside one, or the
\* exit of a scoped one that an exception or an abort ended.
C21_Aborted ==
    \/ last'.act = "Abort" /\ trans_stack # <<>>
    \/ last'.act = "ScopeExit" /\ last'.exc \in {"OSError", "MemoryError", "HostError"}
\* The staged maps are empty after the statement.
C21_StagingEmpty == tr' = EmptyMap /\ tp' = EmptyMap
\* What was staged before the statement is committed after it.
C21_Promoted ==
    /\ \A o \in DOMAIN tr : o \in DOMAIN cr' /\ cr'[o] = tr[o]
    /\ \A k \in DOMAIN tp : k \in DOMAIN cp' /\ cp'[k] = tp[k]

\* C21: after the outermost transaction commits, by a scoped exit or by an
\* explicit commit(), the staged maps of the object cache are empty and every
\* entry that was staged is in the committed maps; after any abort the staged
\* maps are empty and the committed maps are unchanged.
C21_CachePromotion ==
    [][/\ C21_Committed => C21_StagingEmpty /\ C21_Promoted
       /\ C21_Aborted => C21_StagingEmpty /\ UNCHANGED <<cr, cp>>]_vars
\* C21, without the explicit commit(): the scoped exit promotes, every abort
\* discards.
C21_ScopedPromotion ==
    [][/\ (C21_Committed /\ last'.act = "ScopeExit") => C21_StagingEmpty /\ C21_Promoted
       /\ C21_Aborted => C21_StagingEmpty /\ UNCHANGED <<cr, cp>>]_vars
\* A scoped transaction that assigned the root 10 has committed, and 10 is
\* in the committed maps.
C21_ScopedCommit ==
    /\ last.act = "ScopeExit" /\ last.exc = NoExc /\ trans_stack = <<>>
    /\ ep.phase = "ended" /\ ep.kinds = {"scope", "assign"}
    /\ tr = EmptyMap /\ V_Int(10) \in DOMAIN cp

\* The OIDs that the object cache knows, by either direction of its maps.
CachedOids(r, p) == (DOMAIN r) \cup {p[k] : k \in DOMAIN p}
\* The statement just run aborted the running transaction in the library:
\* abort(), or the exit of a scoped transaction with an exception in flight.
C22_Aborting ==
    /\ stage = "WORK" /\ stage' # "WORK" /\ last'.exc # NoExc
    /\ last'.act \in {"Abort", "ScopeExit"}

\* C22: after a transaction aborts, neither the committed nor the staged maps
\* of the object cache hold an OID that was allocated inside it, the OID of
\* a PersistentList created and assigned to the root inside it included.
C22_AbortedOidsForgotten ==
    [][C22_Aborting =>
          \A off \in txAllocs :
              Oid(off) \notin CachedOids(cr', cp') \cup CachedOids(tr', tp')]_vars
\* C22, for the staged maps alone.
C22_AbortedOidsNotStaged ==
    [][C22_Aborting =>
          \A off \in txAllocs : Oid(off) \notin CachedOids(tr', tp')]_vars

\* The OID that the object cache gives for the key k of a host object: the
\* staged map first, then the committed one (oid_from_obj).
KeyOid(k) == IF k \in DOMAIN tp THEN tp[k] ELSE cp[k]
\* No lookup of the object cache, by OID or by host object, gives the OID o.
Unknown(o) ==
    /\ ~has_obj_from_oid(M, o)
    /\ \A k \in (DOMAIN tp) \cup (DOMAIN cp) : KeyOid(k) # o
\* The last statement succeeded, aborted nothing, and freed allocations.
C23_Case == alive /\ last.exc = NoExc /\ last.act # "Abort" /\ last.fr # {}

C23_Witness ==
    /\ C23_Case /\ last.act = "RootSet" /\ last.v = ImmView(V_Int(10))
    /\ Len(trans_stack) = 2 /\ Cardinality(last.fr) = 3
    /\ V_Int(10) \in DOMAIN tp /\ V_Int(5) \notin (DOMAIN tp) \cup (DOMAIN cp)

\* The part of C23 that the code keeps: a freed OID that was not cached at
\* both levels at once (committed and staged) leaves the cache entirely.
C23_FreedOidPurgedOnce ==
    [][C23_Case' =>
          \A off \in last'.fr :
              \/ Oid(off) \in DOMAIN cr /\ Oid(off) \in DOMAIN tr
              \/ Unknown(Oid(off))']_vars

\* Every OID of a resurrect map has its object's key in the persist map of
\* the same level.
Consistent(r, p) == \A o \in DOMAIN r : pkey(r[o]) \in DOMAIN p
\* C24: the OID-to-object and object-to-OID maps of the object cache stay
\* mutually consistent at both levels, and no statement fails with the
\* KeyError of a purge that misses a key, also when two OIDs hold equal
\* immutable values.
C24_CacheConsistent ==
    alive => /\ Consistent(cr, cp)
             /\ Consistent(tr, tp)
             /\ last.exc # "KeyError"

\* C25: whenever control is in user code the transaction stack is as long as
\* the library's nesting of open transactions, and with an empty stack the
\* library is outside any transaction.
C25_StackMatchesLibrary ==
    alive => /\ Len(trans_stack) = Len(txd)
             /\ trans_stack = <<>> => stage = "NONE"

\* The number of references to the allocation at off: one per slot of a list
\* that holds its OID, one if the root slot holds it, one if the type-table
\* slot of the root record holds it.
SlotRefs(m, l, off) == Cardinality({k \in DOMAIN Elems(m, l) : Elems(m, l)[k] = Oid(off)})
RECURSIVE SumSlotRefs(_, _, _)
SumSlotRefs(m, ls, off) ==
    IF ls = {} THEN 0
    ELSE LET l == CHOOSE x \in ls : TRUE
         IN SlotRefs(m, l, off) + SumSlotRefs(m, ls \ {l}, off)
RefsTo(m, off) ==
    SumSlotRefs(m, ListObjs(m), off)
    + (IF m.proot.root_object = Oid(off) THEN 1 ELSE 0)
    + (IF m.proot.type_table = Oid(off) THEN 1 ELSE 0)
\* Control is in user code, outside any transaction, on an open pool.
Quiet == alive /\ handle = "open" /\ trans_stack = <<>> /\ stage = "NONE"

\* C26: outside any transaction the refcount of every live refcounted
\* allocation is the number of references to it (list slots, root slot,
\* type-table slot).
C26_RefcountIsReferences ==
    Quiet => \A off \in Offs :
                 heap[off].kind = "obj" => heap[off].refcnt = RefsTo(M, off)

\* `pop.root = v` ran without error on a root that read as v already and
\* whose block had the root slot as its one reference: the root still names
\* a live block with one reference and reads as before.
C27_RootKept ==
    (/\ alive /\ last'.act = "RootSet" /\ last'.exc = NoExc
     /\ proot.root_object # OID_NULL /\ RootValid(M)
     /\ heap[proot.root_object[2]].refcnt = 1
     /\ View(M) = last'.v)
    => /\ alive' /\ RootValid(M)' /\ proot'.root_object # OID_NULL
       /\ heap'[proot'.root_object[2]].refcnt = 1
       /\ View(M)' = last'.v
\* `L[i] = v` ran without error on the root list L whose slot i held v, v
\* being no other element of L: the slot still names a live block with one
\* reference and L reads as before.
C27_SlotKept ==
    LET s == last.l0.e
        p == py_pos(s, last.i) + 1
    IN (/\ last.act = "ListSet" /\ last.exc = NoExc /\ ListBefore
        /\ py_index_ok(s, last.i) /\ s[p] = last.arg /\ last.arg # ImmView(V_None)
        /\ \A k \in (1..Len(s)) \ {p} : s[k] # last.arg)
       => /\ alive /\ Len(RootElems) = Len(s)
          /\ RootElems[p] # OID_NULL
          /\ heap[RootElems[p][2]].kind = "obj"
          /\ heap[RootElems[p][2]].refcnt = 1
          /\ ListNow = last.l0
\* C27: storing into the root slot or into a list slot the value the slot
\* already holds, that slot being the one reference to it, deallocates
\* nothing the slot needs: afterwards the slot names an allocated value with
\* the refcount it had and reads as before.
C27_SameStoreKeeps == [][C27_RootKept /\ C27_SlotKept']_vars

\* The root slot names a live list.
RootList == proot.root_object # OID_NULL /\ RootValid(M) /\ heap[proot.root_object[2]].type = 0
\* C28: every persistent list has size <= allocated, and its items OID is
\* null exactly when allocated is 0.
C28_ListShape ==
    alive => \A l \in ListObjs(M) :
                 /\ heap[l].size <= heap[l].allocated
                 /\ heap[l].items = OID_NULL <=> heap[l].allocated = 0
\* del L[0] on the root list L of one element: the slot array is given back,
\* items is null and allocated is 0.
C28_Witness ==
    /\ alive /\ last.act = "ListDel" /\ last.exc = NoExc /\ Len(last.l0.e) = 1
    /\ RootList
    /\ heap[proot.root_object[2]].items = OID_NULL
    /\ heap[proot.root_object[2]].allocated = 0

\* A pass of the collector has run on a pool whose root slot is sound.  Such
\* a pass reads no freed block on its way, so it ends in undefined behaviour
\* only by resurrecting and freeing an allocation that it has freed already.
C29_Case == last.act = "Gc" /\ RootLinked
\* C29: during one GC pass every allocation is deallocated at most once,
\* whatever the pool holds at the start of the pass: orphan lists with
\* elements, unreachable cycles.
C29_FreedOncePerPass == C29_Case => alive
\* C29, for pools in which the lists with refcount 0 have no elements.
C29_FreedOnceWithoutOwners == (C29_Case /\ last.full = {}) => alive
\* A pass that collected an unreachable cycle of two lists and freed each once.
C29_CycleFreedOnce ==
    /\ C29_Case /\ alive /\ last.exc = NoExc /\ last.cyc # {}
    /\ \A a \in last.cyc : heap[a].kind = "free"

\* The allocations a list block references.
Succ(m, off) ==
    IF m.heap[off].kind = "obj" /\ m.heap[off].type = 0
    THEN {Elems(m, off)[k][2] : k \in DOMAIN Elems(m, off)} \ {0}
    ELSE {}
RECURSIVE Closure(_, _)
Closure(m, S) ==
    LET N == S \cup UNION {Succ(m, x) : x \in S}
    IN IF N = S THEN S ELSE Closure(m, N)
\* What is reachable from the type registry or from the root by following
\* list slots.
Reach(m) == Closure(m, {m.proot.type_table[2], m.proot.root_object[2]} \ {0})
\* Every reference names a live object and every refcount is the number of
\* references.
Sound(m) ==
    /\ RootValid(m)
    /\ \A l \in ListObjs(m) : \A k \in DOMAIN Elems(m, l) :
           Elems(m, l)[k] = OID_NULL \/ m.heap[Elems(m, l)[k][2]].kind = "obj"
    /\ \A off \in Offs : m.heap[off].kind = "obj" => m.heap[off].refcnt = RefsTo(m, off)
\* A pass of the collector ran to its end on a sound pool.
C30_Pass == last'.act = "Gc" /\ alive' /\ last'.exc = NoExc /\ Sound(M)
\* C30: a GC pass frees no allocation that is reachable from the type
\* registry or from the root by following list slots, also when an orphan or
\* an unreachable cycle that the pass reclaims references it; after the pass
\* its refcount is the number of references that remain.
C30_ReachableKept ==
    [][C30_Pass => \A off \in Reach(M) :
                       /\ heap'[off].kind = "obj"
                       /\ heap'[off].type = heap[off].type
                       /\ heap'[off].refcnt = RefsTo(M, off)']_vars
\* A pass has run to its end on a pool with one int block, the 12 that the
\* root and a list outside the reach of the root shared, and has freed every
\* list but the type table and the root.
C30_SharedCase ==
    /\ alive /\ last.act = "Gc" /\ last.exc = NoExc
    /\ g.types[CLS_INT] = 1
    /\ \E l \in last.lists : heap[l].kind = "free"
    /\ \A l \in last.lists : heap[l].kind = "free" \/ l \in Reach(M)
\* The pass reclaimed the unlinked list [12, itself] while the root is the
\* same 12, which it left with one reference.
C30_Witness ==
    /\ C30_SharedCase /\ g.counts.collections_gced = 1 /\ g.counts.orphans0_gced = 0
    /\ View(M) = ImmView(V_Int(12))
    /\ heap[proot.root_object[2]].refcnt = 1
\* The pass reclaimed the orphan [12] while the root is the list [12] with
\* the same 12 in its slot.
C30_OrphanShared ==
    /\ C30_SharedCase /\ g.counts.orphans0_gced = 1 /\ g.counts.collections_gced = 0
    /\ View(M) = ListView(<<V_Int(12)>>)
    /\ \A off \in Reach(M) : heap[off].refcnt = 1

\* An explicit pop.gc() has returned.
C31_Returned == last.act = "Gc" /\ alive /\ last.exc = NoExc
C32_SecondPassIdle ==
    last.act = "GcAgain" =>
        /\ alive /\ last.exc = NoExc /\ last.fr = {}
        /\ g.counts.orphans0_gced = 0 /\ g.counts.collections_gced = 0
        /\ g.counts.orphans1_gced = 0 /\ g.counts.other_gced = 0
\* The second of two passes has run; the first had freed at least one block,
\* and the root is live.
C32_Witness ==
    /\ last.act = "GcAgain" /\ alive /\ last.fr0 # {}
    /\ proot.root_object # OID_NULL /\ RootValid(M)

\* A pass of the collector from m up to the end of its phase 2 (the sweep of
\* the refcount-0 orphans), and from there up to the end of its phase 5 (the
\* unreachable containers).
PassTo2(m, rev) ==
    gc_orphans_all(gc_totals(gc_catalog([m EXCEPT !.g = NewGc], 1)), rev)
PassTo5(m, rev) ==
    LET p == PassTo2(m, rev) IN
    gc_collected(gc_containers_all(gc_track(gc_trace(
        gc_root(call("resurrect", gc_live(p), <<p.proot.root_object>>),
                p.proot.root_object), 1)), rev))
\* The pool as a pass from m may leave it between two phases that free: as it
\* was, after the orphans, after the containers.
Boundaries(m, rev) ==
    {m.heap}
    \cup (IF Raised(PassTo2(m, rev)) THEN {} ELSE {PassTo2(m, rev).heap})
    \cup (IF Raised(PassTo5(m, rev)) THEN {} ELSE {PassTo5(m, rev).heap})
\* The step is a pass of the collector, called by the program or by close(),
\* that raised an exception.
C33_Failed ==
    /\ alive' /\ last'.exc # NoExc
    /\ last'.act \in {"Gc", "GcAgain"} \/ (last'.act = "Close" /\ handle = "open")
\* C33: a GC pass that raises leaves the pool as it was before the phase that
\* failed or as it was after a whole phase, never with part of a phase applied.
C33_PassAtomic ==
    [][C33_Failed => \E rev \in BOOLEAN : heap' \in Boundaries(M, rev)]_vars

\* The type registry as the pool file holds it: its length, and the bytes of
\* the class string that slot k names (<<>> for a slot that names no live
\* block).
TypeLen(m) ==
    IF m.proot.type_table = OID_NULL \/ m.heap[m.proot.type_table[2]].kind # "obj" THEN 0
    ELSE m.heap[m.proot.type_table[2]].size
TypeAt(m, k) ==
    LET e == Elems(m, m.proot.type_table[2])[k] IN
    IF e = OID_NULL \/ m.heap[e[2]].kind # "obj" THEN <<>> ELSE m.heap[e[2]].body

\* The length the registry had when the running outermost transaction began
\* (the undo log holds it once the transaction has written it); its length
\* now when no transaction has written it.
CommittedLen(m) ==
    IF m.proot.type_table # OID_NULL /\ FieldLoc(m.proot.type_table, "size") \in DOMAIN m.undo
    THEN m.undo[FieldLoc(m.proot.type_table, "size")]
    ELSE TypeLen(m)
\* Across the step the class strings of the registry stay where they are, and
\* entries 0 and 1 are the classes of the persistent list and of str.
C34_EntriesStay ==
    /\ \A k \in 1..TypeLen(M) : k <= TypeLen(M)' => TypeAt(M, k)' = TypeAt(M, k)
    /\ TypeLen(M)' > 0 =>
           /\ TypeLen(M)' >= 2
           /\ TypeAt(M, 1)' = CLS_LIST \o <<0>>
           /\ TypeAt(M, 2)' = CLS_STR \o <<0>>
C34_Reopened ==
    /\ alive /\ last.act = "Construct" /\ last.existed /\ last.exc = NoExc
    /\ TypeLen(M) = 3 /\ TypeAt(M, 3) = CLS_INT \o <<0>>

\* The header of the block at off names a class of the registry, and the block
\* is what that class stores: a list for code 0, a string body for str, the
\* decimal digits of an int for int.
TypedBy(m, off) ==
    LET b == m.heap[off] IN
    /\ b.type < TypeLen(m)
    /\ TypeAt(m, b.type + 1) \in {CLS_LIST \o <<0>>, CLS_STR \o <<0>>, CLS_INT \o <<0>>}
    /\ b.type = 0 <=> TypeAt(m, b.type + 1) = CLS_LIST \o <<0>>
    /\ b.type = 1 <=> TypeAt(m, b.type + 1) = CLS_STR \o <<0>>
    /\ b.type = 0 => b.body = <<>>
    /\ b.type > 0 => b.body # <<>> /\ b.items = OID_NULL
    /\ TypeAt(m, b.type + 1) = CLS_INT \o <<0>> => int_ok(ffi_string(b.body))
\* C35: in every state of the pool file, also after an aborted transaction
\* that registered a class, the type code of every live refcounted allocation
\* is 0, 1 or an index into the registry as it is now, and the class string at
\* that index is the class the object was persisted as.
C35_TypeCodesValid ==
    alive => \A off \in Offs : heap[off].kind = "obj" => TypedBy(M, off)

\* A pool has just been created, or the process has ended while creating it.
C36_Creating ==
    \/ last.act = "CreateCrash"
    \/ last.act = "Construct" /\ ~last.existed /\ last.exc = NoExc
\* The root record names a committed type registry: a live list with refcount
\* 1 that no open transaction has written, whose entries 0 and 1 are the
\* class strings of the persistent list and of str.
C36_Registry ==
    /\ heap[proot.type_table[2]].kind = "obj"
    /\ heap[proot.type_table[2]].refcnt = 1
    /\ TypeLen(M) = 2
    /\ TypeAt(M, 1) = CLS_LIST \o <<0>>
    /\ TypeAt(M, 2) = CLS_STR \o <<0>>
    /\ stage = "NONE" /\ undo = EmptyMap /\ txAllocs = {}
\* C36: wherever the process stops while a pool is being created, the file
\* holds a root record whose type_table slot is null (and then no allocation
\* at all) or names a committed registry of the two built-in classes with
\* refcount 1; the user root slot is null.
C36_CreateAtomic ==
    (alive /\ C36_Creating) =>
        /\ exists
        /\ proot.root_object = OID_NULL
        /\ IF proot.type_table = OID_NULL
           THEN \A off \in Offs : heap[off].kind = "free"
           ELSE C36_Registry
\* The process ended inside the transaction, after the root record had been
\* written; a pool has been created to the end.
C36_Witness ==
    /\ last.act = "CreateCrash" /\ last.i = 2 /\ alive
    /\ exists /\ proot.type_table = OID_NULL
C36_Created ==
    /\ last.act = "Construct" /\ ~last.existed /\ last.exc = NoExc /\ alive
    /\ proot.type_table # OID_NULL /\ C36_Registry

\* The locations of the allocation at off, whose block is b.
BlockLocs(b, off) ==
    {<<off, f, 0>> : f \in {"refcnt", "type", "size", "items", "allocated"}}
        \cup {<<off, h, k>> : h \in {"slot_lo", "slot_off"}, k \in 1..Len(b.slots)}
\* The allocation at off existed before the running transaction and is the
\* same allocation after the step.
C37_Old(off) ==
    /\ heap[off].kind # "free" /\ off \notin txAllocs
    /\ heap'[off].kind = heap[off].kind
    /\ Len(heap'[off].slots) = Len(heap[off].slots)
\* Every location of such an allocation, and every slot of the root record,
\* whose value the step changed is in the undo log after the step.
C37_Logged ==
    /\ \A off \in Offs : C37_Old(off) =>
           \A loc \in BlockLocs(heap[off], off) :
               ReadLoc(M, loc)' # ReadLoc(M, loc) => loc \in DOMAIN undo'
    /\ \A f \in {"type_table", "root_object"} :
           proot'[f] # proot[f] => RootLoc(f) \in DOMAIN undo'
\* C37: every write to persistent bytes that existed before the running
\* transaction is preceded, within that transaction, by a snapshot covering
\* the bytes written: while the transaction is open, whatever a statement
\* changed in an allocation that is older than the transaction, or in the
\* root record, is in the undo log.
C37_WritesSnapshotted == [][(alive' /\ stage' = "WORK") => C37_Logged]_vars

\* The pool as the first list statement of the last scoped transaction
\* found it.
Before == [M EXCEPT !.heap = ref.tx.heap]
\* The list at off is what it was before the transaction: its length, its
\* elements in order, and the refcount of every element.
SameList(off) ==
    /\ heap[off].kind = "obj" /\ heap[off].type = 0
    /\ heap[off].size = Before.heap[off].size
    /\ Elems(M, off) = Elems(Before, off)
    /\ \A k \in DOMAIN Elems(Before, off) :
           LET e == Elems(Before, off)[k] IN
           e # OID_NULL => /\ heap[e[2]].kind = "obj"
                           /\ heap[e[2]].refcnt = Before.heap[e[2]].refcnt
\* An outermost scoped transaction that ran list statements on the root, none
\* of which raised, has just ended by abort() or by an exception of the
\* program.
C38_Case ==
    /\ alive /\ last.act = "ScopeExit" /\ ep.phase = "ended" /\ ref.tx.ep = ep.count
    /\ ep.kinds \cap ListKinds # {} /\ "err" \notin ep.kinds
    /\ ep.kinds \cap {"abortC", "raise"} # {}
\* C38: after a scoped transaction that ran insert, set, del, clear or append
\* on a list reachable from the root and then aborted, every list that was
\* reachable from the root has the length, the elements and the element
\* refcounts it had before the scope.
C38_AbortRestoresLists ==
    C38_Case => \A off \in ListObjs(Before) \cap Reach(Before) :
                    off # proot.type_table[2] => SameList(off)

\* Thread t is inside a pass of the collector, inside an assignment of the
\* root, inside a method that changes a list, inside a read of the root.
Collecting(t) == At(t) \in GcPos
Assigning(t) == At(t) \in SetPos
Mutating(t) == At(t) \in ListWrites
Reading(t) == At(t) = "root"
\* C39: every operation on the pool (root get and set, the list methods, gc,
\* close) runs while its thread holds the pool's lock, gc for all of its
\* phases; so while one thread is inside a GC pass or a root assignment no
\* other thread is inside a list mutation or a root read.
C39_OperationsLocked ==
    /\ \A t \in Threads : pc[t] # <<>> => lock.owner = t
    /\ \A a, b \in Threads :
           (a # b /\ (Collecting(a) \/ Assigning(a))) => ~(Mutating(b) \/ Reading(b))

\* C40: between two statements of the program, that is whenever user code is
\* in control, no transaction level is in ONCOMMIT, ONABORT or FINALLY: the
\* library is outside a transaction or at work in one; in particular abort()
\* inside a `with` block does not return to the block with the level still
\* open in ONABORT.
C40_UserCodeStages == alive => stage \in {"NONE", "WORK"}
====
